---- MODULE Spec2Model ----
(***************************************************************************)
(* Model of the CarmiteCompanion TFT commands.                             *)
(*                                                                         *)
(*   - rank linearization (calculateTotalLP / getTierFromTotalLP),         *)
(*   - the /tft-climb timeline reconstruction loop,                        *)
(*   - the /tft caches, sessions, button navigation and periodic sweep.    *)
(*                                                                         *)
(* JavaScript null / undefined in a numeric field is written 0 (the code   *)
(* only tests such fields for truthiness); in a string field it is "null". *)
(* The clock counts sweep periods: one tick is the 5 minutes of the        *)
(* setInterval at tft-climb.js:595, and every TTL is given in that unit.   *)
(***************************************************************************)
EXTENDS Integers, Sequences, FiniteSets, TLC

VARIABLES
    \* ---- rank round trip (pure functions applied to a drawn input)
    rankIn,          \* the RankPoint handed to calculateTotalLP
    rankTotal,       \* its total LP, -1 before the call
    rankOut,         \* getTierFromTotalLP(rankTotal), NoRank before the call
    rankPrev,        \* the total and result of the call before the last one
    \* ---- /tft-climb execute
    climbPc,         \* "idle" | "loop" | "done"
    currentRank,     \* the rank entry selected from rankedStats
    matchList,       \* upstream match details, in the order of matchIds
    matchIdx,        \* loop variable i (1-based)
    climbData,       \* the timeline array
    duoPartners,     \* Map partnerKey -> {name, iconId, count}
    currentLP,
    doubleUpCount,
    processedGames,
    climbReply,      \* what was sent with interaction.editReply
    climbFetches,    \* the upstream calls this request has issued, in order
    climbInputs,     \* what upstream answered to this request so far
    firstRun,        \* inputs and outputs of the request that returned before
    \* ---- /tft: module state, clock and event loop
    now,             \* Date.now(), in sweep periods
    nextSweep,       \* when the setInterval timer fires next
    summonerCache,   \* Map cacheKey -> account + timestamp
    matchDataCache,  \* Map dataKey -> sessionData
    matchDetailCache,\* Map matchId -> {data, timestamp}
    imageCache,      \* Map url -> {image, timestamp}
    canvasCache,     \* Map canvasCacheKey -> {canvas, timestamp}
    lastEvent,       \* the event handled last and what it replied
    handled,         \* number of commands and button presses handled so far
    \* ---- /tft-stats execute
    statsEvent,      \* the /tft-stats command handled last and what it replied
    \* ---- /tft handlers taken apart at their awaits
    press,           \* per button interaction: where its handler stands
    pressLog,        \* actions of the handlers that found the session, in start order
    request,         \* the /tft command in flight
    delivered        \* the view sent last with interaction.editReply

rankVars  == <<rankIn, rankTotal, rankOut, rankPrev>>
climbVars == <<climbPc, currentRank, matchList, matchIdx, climbData,
               duoPartners, currentLP, doubleUpCount, processedGames,
               climbReply, climbFetches,
               climbInputs, firstRun>>
cacheVars == <<summonerCache, matchDataCache, matchDetailCache, imageCache,
               canvasCache>>
tftVars   == <<now, nextSweep, cacheVars, lastEvent, handled>>
statsVars == <<statsEvent>>
asyncVars == <<press, pressLog, request, delivered>>
vars == <<rankVars, climbVars, tftVars, statsVars, asyncVars>>

Min(a, b) == IF a < b THEN a ELSE b

\* Array.prototype.reverse
RECURSIVE Reverse(_)
Reverse(s) == IF s = <<>> THEN <<>> ELSE Reverse(Tail(s)) \o <<Head(s)>>

-----------------------------------------------------------------------------
(* Rank linearization                                                       *)

StdDivisions ==
    << [division |-> "IV", divLP |-> 0],   [division |-> "III", divLP |-> 100],
       [division |-> "II", divLP |-> 200], [division |-> "I",   divLP |-> 300] >>

ApexDivisions == << [division |-> "I", divLP |-> 0] >>

\* Object.entries(RANK_TIERS), in insertion order
RANK_TIERS ==
    << [tier |-> "IRON",        base |-> 0,    divisions |-> StdDivisions],
       [tier |-> "BRONZE",      base |-> 400,  divisions |-> StdDivisions],
       [tier |-> "SILVER",      base |-> 800,  divisions |-> StdDivisions],
       [tier |-> "GOLD",        base |-> 1200, divisions |-> StdDivisions],
       [tier |-> "PLATINUM",    base |-> 1600, divisions |-> StdDivisions],
       [tier |-> "EMERALD",     base |-> 2000, divisions |-> StdDivisions],
       [tier |-> "DIAMOND",     base |-> 2400, divisions |-> StdDivisions],
       [tier |-> "MASTER",      base |-> 2800, divisions |-> ApexDivisions],
       [tier |-> "GRANDMASTER", base |-> 2900, divisions |-> ApexDivisions],
       [tier |-> "CHALLENGER",  base |-> 3000, divisions |-> ApexDivisions] >>

TierIndex(tier) ==
    IF \E i \in 1..Len(RANK_TIERS) : RANK_TIERS[i].tier = tier
    THEN CHOOSE i \in 1..Len(RANK_TIERS) : RANK_TIERS[i].tier = tier
    ELSE 0

\* tierData.divisions[rank] || 0
DivisionLP(tierData, rank) ==
    IF \E j \in 1..Len(tierData.divisions) : tierData.divisions[j].division = rank
    THEN LET j == CHOOSE j \in 1..Len(tierData.divisions) :
                      tierData.divisions[j].division = rank
         IN  tierData.divisions[j].divLP
    ELSE 0

calculateTotalLP(tier, rank, lp) ==
    IF TierIndex(tier) = 0 THEN 0
    ELSE LET tierData == RANK_TIERS[TierIndex(tier)]
         IN  tierData.base + DivisionLP(tierData, rank) + lp

MaxLpInDivision == 99

\* the points wrap around at 100
ClampLpWrapped(lp) == lp % (MaxLpInDivision + 1)

\* Math.min(lp, 99)
ClampLp(lp) == Min(lp, MaxLpInDivision)

NoRank == [tier |-> "none", rank |-> "none", lp |-> 0]

\* inner loop of getTierFromTotalLP: divisions from the last entry to the first
RECURSIVE ScanDivisions(_, _, _)
ScanDivisions(data, j, lpInTier) ==
    IF j = 0 THEN NoRank
    ELSE IF lpInTier >= data.divisions[j].divLP
         THEN [tier |-> data.tier, rank |-> data.divisions[j].division,
               lp |-> ClampLp(lpInTier - data.divisions[j].divLP)]
         ELSE ScanDivisions(data, j - 1, lpInTier)

\* outer loop of getTierFromTotalLP: tiers from the last entry to the first
RECURSIVE ScanTiers(_, _)
ScanTiers(i, totalLP) ==
    IF i = 0 THEN [tier |-> "IRON", rank |-> "IV", lp |-> 0]
    ELSE LET data  == RANK_TIERS[i]
             found == IF totalLP >= data.base
                      THEN ScanDivisions(data, Len(data.divisions), totalLP - data.base)
                      ELSE NoRank
         IN  IF found # NoRank THEN found ELSE ScanTiers(i - 1, totalLP)

getTierFromTotalLP(totalLP) == ScanTiers(Len(RANK_TIERS), totalLP)

ApexTiers == {"MASTER", "GRANDMASTER", "CHALLENGER"}

\* largest points value drawn for an apex-tier RankPoint
MaxApexPoints == 150

\* the valid RankPoints: division of the tier's own table, points 0..99 below
\* the apex tiers, any points >= 0 (here up to MaxApexPoints) in an apex tier
ValidRankPoints ==
    UNION { UNION { { [tier |-> RANK_TIERS[i].tier,
                       rank |-> RANK_TIERS[i].divisions[j].division,
                       lp   |-> p] :
                         p \in IF RANK_TIERS[i].tier \in ApexTiers
                               THEN 0..MaxApexPoints ELSE 0..MaxLpInDivision } :
                    j \in 1..Len(RANK_TIERS[i].divisions) } :
            i \in 1..Len(RANK_TIERS) }

-----------------------------------------------------------------------------
(* Round trip of one RankPoint through the two functions                    *)

NoPrev == [total |-> 0, out |-> NoRank]

RankIdle == rankIn = NoRank /\ rankTotal = -1 /\ rankOut = NoRank /\ rankPrev = NoPrev

ToTotal ==
    /\ rankTotal = -1
    /\ rankTotal' = calculateTotalLP(rankIn.tier, rankIn.rank, rankIn.lp)
    /\ UNCHANGED <<rankIn, rankOut, rankPrev, climbVars, tftVars, statsVars, asyncVars>>

FromTotal ==
    /\ rankTotal # -1
    /\ rankOut = NoRank
    /\ rankOut' = getTierFromTotalLP(rankTotal)
    /\ UNCHANGED <<rankIn, rankTotal, rankPrev, climbVars, tftVars, statsVars, asyncVars>>

\* lowest and highest total handed to getTierFromTotalLP on its own, and the
\* largest step from one total to the next
MaxNegative == 50
MaxTotal == 3200
MaxGap == 110

Totals == (0 - MaxNegative)..MaxTotal

\* getTierFromTotalLP on a total of its own
FromFirstTotal ==
    /\ rankIn = NoRank
    /\ rankOut = NoRank
    /\ rankOut' = getTierFromTotalLP(rankTotal)
    /\ UNCHANGED <<rankIn, rankTotal, rankPrev, climbVars, tftVars, statsVars, asyncVars>>

\* getTierFromTotalLP on a higher total b than the one before
FromHigherTotal(b) ==
    /\ rankIn = NoRank
    /\ rankOut # NoRank
    /\ rankPrev = NoPrev
    /\ b > rankTotal
    /\ rankPrev' = [total |-> rankTotal, out |-> rankOut]
    /\ rankTotal' = b
    /\ rankOut' = getTierFromTotalLP(b)
    /\ UNCHANGED <<rankIn, climbVars, tftVars, statsVars, asyncVars>>

-----------------------------------------------------------------------------
(* Strings that the code takes apart are sequences of characters            *)

\* String.prototype.split(sep)
RECURSIVE Split(_, _)
Split(s, sep) ==
    IF s = <<>> THEN << <<>> >>
    ELSE IF Head(s) = sep THEN << <<>> >> \o Split(Tail(s), sep)
    ELSE LET r == Split(Tail(s), sep)
         IN  << <<Head(s)>> \o Head(r) >> \o Tail(r)

\* Array.prototype.join(sep)
RECURSIVE Join(_, _)
Join(parts, sep) ==
    IF parts = <<>> THEN <<>>
    ELSE IF Len(parts) = 1 THEN Head(parts)
    ELSE Head(parts) \o <<sep>> \o Join(Tail(parts), sep)

\* only the name is tested
ValidRiotIdNameOnly(riotId) ==
    LET parts == Split(riotId, "#") IN parts[1] # <<>>

\* const [gameName, tagLine] = riotId.split('#'); !gameName || !tagLine
ValidRiotId(riotId) ==
    LET parts == Split(riotId, "#")
    IN  Len(parts) >= 2 /\ parts[1] # <<>> /\ parts[2] # <<>>

RiotIds == { <<"K", "#", "N">>, <<"K">>, <<"#", "N">>, <<"K", "#">>, <<>> }

-----------------------------------------------------------------------------
(* /tft-climb: upstream data                                                *)

Me == "me"                      \* summoner.puuid of the requested player

\* the placements the requested player takes in the drawn matches
PlayedPlacements == {1, 4, 7}

\* longest match-id list the upstream returns to /tft-climb
MaxClimbMatches == 2

\* the other participants of a match in which the player placed p
OtherParticipants(p) ==
    { <<>>,
      << [puuid |-> "X", placement |-> p] >>,
      << [puuid |-> "Y", placement |-> p] >> }

\* what GET /tft/match/v1/matches/{id} can answer (game_datetime is set below)
MatchKinds ==
    { [ok |-> FALSE, type |-> "pairs", participants |-> <<>>, ts |-> 0],
      [ok |-> TRUE, type |-> "standard",
       participants |-> << [puuid |-> Me, placement |-> 1] >>, ts |-> 0],
      [ok |-> TRUE, type |-> "pairs",
       participants |-> << [puuid |-> "X", placement |-> 1] >>, ts |-> 0] }
    \cup
    UNION { { [ok |-> TRUE, type |-> "pairs",
               participants |-> << [puuid |-> Me, placement |-> p] >> \o o,
               ts |-> 0] : o \in OtherParticipants(p) } : p \in PlayedPlacements }

\* order in which the match list carries the games' timestamps
TsModes == {"newestFirst", "oldestFirst", "sameTime"}

Stamp(list, mode) ==
    [i \in 1..Len(list) |->
        [list[i] EXCEPT !.ts = CASE mode = "newestFirst" -> Len(list) - i + 1
                                 [] mode = "oldestFirst" -> i
                                 [] OTHER                -> 1]]

ClimbMatchListsUpTo(most) ==
    UNION { { Stamp(l, m) : l \in [1..n -> MatchKinds], m \in TsModes } :
            n \in 0..most }

ClimbMatchLists == ClimbMatchListsUpTo(MaxClimbMatches)

RankEntry(q, t, r, p) == [queueType |-> q, tier |-> t, rank |-> r, leaguePoints |-> p]

\* what GET /tft/league/v1/by-puuid can answer
RankedStatsPool ==
    { <<>>,
      << RankEntry("RANKED_TFT_PAIRS", "GOLD", "II", 40) >>,
      << RankEntry("RANKED_TFT_PAIRS", "DIAMOND", "I", 90) >>,
      << RankEntry("RANKED_TFT_PAIRS", "MASTER", "I", 120) >>,
      << RankEntry("RANKED_TFT", "SILVER", "IV", 0) >>,
      << RankEntry("RANKED_TFT", "SILVER", "IV", 0),
         RankEntry("RANKED_TFT_PAIRS", "GOLD", "II", 40) >> }

\* queue.queueType && queue.queueType.includes('PAIRS')
IsPairsQueue(entry) == entry.queueType = "RANKED_TFT_PAIRS"

\* Array.prototype.find: index of the first element satisfying Test, 0 if none
FindIndex(seq, Test(_)) ==
    IF \E i \in 1..Len(seq) : Test(seq[i])
    THEN CHOOSE i \in 1..Len(seq) :
             Test(seq[i]) /\ \A k \in 1..(i - 1) : ~Test(seq[k])
    ELSE 0

NoRankEntry == RankEntry("null", "null", "null", 0)

\* lines 135-143: the PAIRS queue, else the first entry, else nothing
SelectCurrentRank(rankedStats) ==
    LET k == FindIndex(rankedStats, IsPairsQueue)
    IN  IF k # 0 THEN rankedStats[k]
        ELSE IF Len(rankedStats) > 0 THEN rankedStats[1]
        ELSE NoRankEntry

-----------------------------------------------------------------------------
(* /tft-climb: execute                                                      *)

\* one `await fetch(...)`: the endpoint, whom or what it asks for, res.ok
Call(api, arg, ok) == [api |-> api, arg |-> arg, ok |-> ok]

\* what GET /tft/match/v1/matches/by-puuid/{puuid}/ids can do: answer the
\* list, answer an error status (its JSON body is an object, line 154), or
\* reject
MatchIdsOutcomes == {"ok", "status", "threw"}

\* lines 95-154: the calls made up to the first one that ends the request
PreludeCalls(accountOk, summonerOk, rankedOk, ranked, matchesRes) ==
    <<Call("account", Me, accountOk)>> \o
    IF ~accountOk THEN <<>> ELSE
    <<Call("summoner", Me, summonerOk)>> \o
    IF ~summonerOk THEN <<>> ELSE
    <<Call("league", Me, rankedOk)>> \o
    IF ~rankedOk \/ ~ranked THEN <<>> ELSE
    <<Call("matchIds", Me, matchesRes = "ok")>>

\* lines 211-219: the calls of one partner lookup
PartnerCalls(key, fetch) ==
    CASE fetch = "ok" -> <<Call("summoner", key, TRUE), Call("account", key, TRUE)>>
      [] fetch = "accountFailed" ->
             <<Call("summoner", key, TRUE), Call("account", key, FALSE)>>
      [] OTHER -> <<Call("summoner", key, FALSE)>>

\* no request has returned yet
NoRun == [inputs |-> <<>>, reply |-> "none", climbData |-> <<>>, duoPartners |-> <<>>]

ClimbIdle ==
    /\ climbPc = "idle"
    /\ currentRank = NoRankEntry
    /\ matchList = <<>>
    /\ matchIdx = 0
    /\ climbData = <<>>
    /\ duoPartners = <<>>
    /\ currentLP = 0
    /\ doubleUpCount = 0
    /\ processedGames = 0
    /\ climbReply = "none"
    /\ climbFetches = <<>>
    /\ climbInputs = <<>>
    /\ firstRun = NoRun

ClimbReplyAndStop(msg) ==
    /\ climbPc' = "done"
    /\ climbReply' = msg
    /\ UNCHANGED <<currentRank, matchList, matchIdx, climbData, duoPartners,
                   currentLP, doubleUpCount, processedGames>>

\* the point pushed for the current rank (lines 167-175)
AnchorPoint(rank, total) ==
    [gameNumber |-> 0, totalLP |-> total, tier |-> rank.tier, rank |-> rank.rank,
     lp |-> rank.leaguePoints, placement |-> 0, lpChange |-> 0,
     partner |-> "null", timestamp |-> 0]

\* the Map outlives the request
KeptPartners(partners) == partners

\* line 163: new Map()
FreshPartners(partners) == <<>>

\* lines 79-178: parse the Riot ID, resolve the account, the summoner, the
\* rank and the match ids, then seed the timeline with the current rank
ClimbExecute(riotId, accountOk, summonerOk, rankedOk, rankedStats, matchesRes, matches) ==
    /\ climbPc = "idle"
    /\ climbFetches' =
         IF ~ValidRiotId(riotId) THEN <<>>
         ELSE PreludeCalls(accountOk, summonerOk, rankedOk,
                           SelectCurrentRank(rankedStats) # NoRankEntry, matchesRes)
    /\ IF ~ValidRiotId(riotId)
         THEN ClimbReplyAndStop("Invalid Riot ID format")
       ELSE IF ~accountOk THEN ClimbReplyAndStop("Riot ID not found")
       ELSE IF ~summonerOk THEN ClimbReplyAndStop("Summoner not found")
       ELSE IF ~rankedOk THEN ClimbReplyAndStop("Could not fetch ranked data")
       ELSE IF SelectCurrentRank(rankedStats) = NoRankEntry
         THEN ClimbReplyAndStop("No ranked data found")
       ELSE IF matchesRes = "threw" THEN ClimbReplyAndStop("An error occurred")
       ELSE IF matchesRes = "ok" /\ Len(matches) = 0
         THEN ClimbReplyAndStop("No recent matches found")
       ELSE LET cr    == SelectCurrentRank(rankedStats)
                total == calculateTotalLP(cr.tier, cr.rank, cr.leaguePoints)
            IN  /\ climbPc' = "loop"
                /\ currentRank' = cr
                /\ matchList' = IF matchesRes = "ok" THEN matches ELSE <<>>
                /\ matchIdx' = 1
                /\ currentLP' = total
                /\ climbData' = << AnchorPoint(cr, total) >>
                /\ duoPartners' = FreshPartners(duoPartners)
                /\ doubleUpCount' = 0
                /\ processedGames' = 0
                /\ UNCHANGED climbReply
    /\ UNCHANGED <<rankVars, tftVars, statsVars, asyncVars>>

\* Math.ceil(placement / 2)
TeamPlacement(placement) == (placement + 1) \div 2

\* lines 241-250
LpChangeOf(teamPlacement) ==
    CASE teamPlacement = 1 -> -35
      [] teamPlacement = 2 -> -25
      [] teamPlacement = 3 -> -15
      [] teamPlacement = 4 -> -10
      [] teamPlacement = 5 -> 10
      [] teamPlacement = 6 -> 15
      [] teamPlacement = 7 -> 25
      [] teamPlacement = 8 -> 35
      [] OTHER -> 0

\* Map.has / Map.get / Map.set on duoPartners, kept in insertion order
PartnerIndex(partners, key) ==
    IF \E k \in 1..Len(partners) : partners[k].key = key
    THEN CHOOSE k \in 1..Len(partners) : partners[k].key = key
    ELSE 0

\* lines 206-232: resolve a partner seen for the first time
ResolvePartner(partners, key, fetch) ==
    IF PartnerIndex(partners, key) = 0 /\ fetch = "ok"
    THEN Append(partners, [key |-> key, name |-> <<key, "#", "NA1">>,
                           iconId |-> 1, count |-> 0])
    ELSE partners

\* the count goes up by two for one game
CountPartnerTwice(partners, key) ==
    LET k == PartnerIndex(partners, key)
    IN  IF k = 0 THEN partners
        ELSE [partners EXCEPT ![k].count = partners[k].count + 2]

\* lines 234-236
CountPartner(partners, key) ==
    LET k == PartnerIndex(partners, key)
    IN  IF k = 0 THEN partners
        ELSE [partners EXCEPT ![k].count = partners[k].count + 1]

PartnerFetchOutcomes == {"ok", "summonerFailed", "accountFailed", "threw"}

\* lines 180-277: one iteration of the loop over matchIds
ClimbMatch(partnerFetch) ==
    /\ climbPc = "loop"
    /\ matchIdx <= Len(matchList)
    /\ LET match == matchList[matchIdx]
           IsMe(p) == p.puuid = Me
           me == FindIndex(match.participants, IsMe)
       IN  IF ~match.ok \/ match.type # "pairs" \/ me = 0
           THEN /\ climbFetches' =
                     Append(climbFetches, Call("match", matchIdx, match.ok))
                /\ UNCHANGED <<climbData, duoPartners, currentLP, doubleUpCount,
                               processedGames>>
           ELSE LET playerData == match.participants[me]
                    IsPartner(p) == p.puuid # Me /\ p.placement = playerData.placement
                    pi == FindIndex(match.participants, IsPartner)
                    partnerKey == IF pi = 0 THEN "null" ELSE match.participants[pi].puuid
                    teamPlacement == TeamPlacement(playerData.placement)
                    lpChange == LpChangeOf(teamPlacement)
                    previousLP == currentLP - lpChange
                    rankInfo == getTierFromTotalLP(previousLP)
                    lookup == IF pi # 0 /\ PartnerIndex(duoPartners, partnerKey) = 0
                              THEN PartnerCalls(partnerKey, partnerFetch)
                              ELSE <<>>
                IN  /\ climbFetches' =
                         Append(climbFetches, Call("match", matchIdx, TRUE)) \o lookup
                    /\ doubleUpCount' = doubleUpCount + 1
                    /\ processedGames' = processedGames + 1
                    /\ duoPartners' =
                         IF pi = 0 THEN duoPartners
                         ELSE CountPartner(
                                ResolvePartner(duoPartners, partnerKey, partnerFetch),
                                partnerKey)
                    /\ climbData' =
                         << [gameNumber |-> processedGames + 1,
                             totalLP |-> previousLP,
                             tier |-> rankInfo.tier, rank |-> rankInfo.rank,
                             lp |-> rankInfo.lp,
                             placement |-> teamPlacement, lpChange |-> lpChange,
                             partner |-> partnerKey,
                             timestamp |-> match.ts] >> \o climbData
                    /\ currentLP' = previousLP
    /\ matchIdx' = matchIdx + 1
    /\ UNCHANGED <<climbPc, currentRank, matchList, climbReply, rankVars, tftVars, statsVars, asyncVars>>

\* lines 286-288
Renumber(data) == [i \in 1..Len(data) |-> [data[i] EXCEPT !.gameNumber = i - 1]]

\* no test at all: the graph is drawn whatever was counted
NoDoubleUpNever(count) == FALSE

\* line 279
NoDoubleUp(count) == count = 0

\* lines 279-342: after the loop
ClimbFinish ==
    /\ climbPc = "loop"
    /\ matchIdx > Len(matchList)
    /\ climbPc' = "done"
    /\ IF NoDoubleUp(doubleUpCount)
       THEN /\ climbReply' = "No Double Up matches found"
            /\ UNCHANGED climbData
       ELSE /\ climbData' = Renumber(Reverse(climbData))
            /\ climbReply' = "graph"
    /\ UNCHANGED <<currentRank, matchList, matchIdx, duoPartners, currentLP,
                   doubleUpCount, processedGames, climbFetches, rankVars, tftVars, statsVars, asyncVars>>

\* execute has returned; the next /tft-climb interaction can be handled
ClimbReturn ==
    /\ climbPc = "done"
    /\ firstRun = NoRun
    /\ climbPc' = "idle"
    /\ firstRun' = [inputs |-> climbInputs, reply |-> climbReply,
                    climbData |-> climbData, duoPartners |-> duoPartners]
    /\ climbInputs' = <<>>
    /\ UNCHANGED <<currentRank, matchList, matchIdx, climbData, duoPartners,
                   currentLP, doubleUpCount, processedGames, climbReply,
                   climbFetches, rankVars, tftVars, statsVars, asyncVars>>

ClimbNext ==
    \/ /\ climbPc = "idle"
       /\ UNCHANGED <<climbInputs, firstRun>>
       /\ \E riotId \in RiotIds, accountOk \in BOOLEAN, summonerOk \in BOOLEAN,
             rankedOk \in BOOLEAN, rankedStats \in RankedStatsPool :
             \E matchesRes \in IF accountOk /\ summonerOk /\ rankedOk
                                THEN MatchIdsOutcomes ELSE {"ok"} :
                \E matches \in IF accountOk /\ summonerOk /\ rankedOk
                                   /\ matchesRes = "ok"
                                THEN ClimbMatchLists ELSE {<<>>} :
                   ClimbExecute(riotId, accountOk, summonerOk, rankedOk,
                                rankedStats, matchesRes, matches)
    \/ /\ climbPc = "loop"
       /\ UNCHANGED <<climbInputs, firstRun>>
       /\ \E partnerFetch \in PartnerFetchOutcomes : ClimbMatch(partnerFetch)
    \/ ClimbFinish /\ UNCHANGED <<climbInputs, firstRun>>

-----------------------------------------------------------------------------
(* /tft: caches                                                             *)

CACHE_TTL == 1
MATCH_DATA_TTL == 6
MATCH_DETAIL_TTL == 3
IMAGE_CACHE_TTL == 12
CANVAS_CACHE_TTL == 6
SWEEP_INTERVAL == 1

\* last clock value of a run
MaxTime == 7

\* new Map()
EmptyMap == [k \in {} |-> 0]

\* Map.prototype.has
Has(map, key) == key \in DOMAIN map

\* Map.prototype.set
MapSet(map, key, value) ==
    [k \in DOMAIN map \cup {key} |-> IF k = key THEN value ELSE map[k]]

\* Map.prototype.delete of every key in keys
MapDelete(map, keys) == [k \in DOMAIN map \ keys |-> map[k]]

\* cached && (Date.now() - cached.timestamp < ttl)
Fresh(map, key, ttl, t) == Has(map, key) /\ t - map[key].timestamp < ttl

\* !account || Date.now() - account.timestamp > CACHE_TTL   (line 676)
AccountStale(map, key, t) == ~Has(map, key) \/ t - map[key].timestamp > CACHE_TTL

\* the sweep deletes every entry that is not from this very instant
SweepMapEager(map, ttl, t) ==
    MapDelete(map, { k \in DOMAIN map : t - map[k].timestamp > 0 })

\* the loop of a sweep that deletes nothing
SweepMapNever(map, ttl, t) == map

\* one loop of cleanupOldCacheEntries: delete when now - timestamp > ttl
SweepMap(map, ttl, t) ==
    MapDelete(map, { k \in DOMAIN map : t - map[k].timestamp > ttl })

\* loadImageWithCache for every url of urls; netUp says whether
\* Canvas.loadImage succeeds during this handler
LoadImages(cache, urls, netUp, t) ==
    [u \in DOMAIN cache \cup (IF netUp THEN urls ELSE {}) |->
        IF u \in urls /\ netUp /\ ~Fresh(cache, u, IMAGE_CACHE_TTL, t)
        THEN [image |-> u, timestamp |-> t]
        ELSE cache[u]]

TftIdle ==
    /\ now = 0
    /\ nextSweep = SWEEP_INTERVAL
    /\ summonerCache = EmptyMap
    /\ matchDataCache = EmptyMap
    /\ matchDetailCache = EmptyMap
    /\ imageCache = EmptyMap
    /\ canvasCache = EmptyMap
    /\ lastEvent = [kind |-> "none", customId |-> <<>>, dataKey |-> <<>>,
                    outcome |-> "none", index |-> -1, riotId |-> <<>>,
                    fetches |-> <<>>]
    /\ handled = 0

-----------------------------------------------------------------------------
(* /tft: upstream data                                                      *)

Callers == {"u1"}               \* interaction.user.id

TftRiotIds == { <<"K", "#", "N">>, <<"K">> }

\* String.prototype.toLowerCase
ToLowerCase(str) ==
    [i \in 1..Len(str) |-> CASE str[i] = "K" -> "k"
                             [] str[i] = "N" -> "n"
                             [] str[i] = "X" -> "x"
                             [] OTHER -> str[i]]

\* most matches a /tft request asks for
MaxTftMatches == 2

\* the 'matches' option of the request
TftMatchCounts == {1, MaxTftMatches}

\* most commands and button presses handled in one run
MaxEvents == 2

\* most sessions held in matchDataCache at once
MaxSessions == 1

\* most per-match detail fetches that fail within one request
MaxFailedFetches == 1

\* the sets of match ids whose detail fetch fails during one request: the
\* first and the last id of the list are the ones that can fail
FailingSets(count) ==
    { f \in SUBSET {1, count} : Cardinality(f) <= MaxFailedFetches }

\* GET /riot/account/v1/accounts/by-riot-id: X#N is a second player, every
\* other modelled Riot ID is the same player
AccountOf(cacheKey) == [puuid |-> IF cacheKey = <<"x", "#", "n">> THEN "X" ELSE Me]

\* GET /tft/match/v1/matches/by-puuid/{puuid}/ids?count=n
MatchIdsOf(puuid, count) == [i \in 1..count |-> i]

\* GET /tft/match/v1/matches/{id}: the participants' puuids
ParticipantsOf(matchId) == {Me, "X"}

\* `tft_${interaction.user.id}_${Date.now()}`
DataKey(caller, t) == <<"tft", "_", caller, "_", ToString(t)>>

\* `${dataKey}_${matchId}`
CanvasKey(dataKey, matchId) == dataKey \o <<"_", ToString(matchId)>>

BG_URL == "bg"
TIER_STARS == [tier \in {2, 3} |-> IF tier = 2 THEN "silverstar" ELSE "goldstar"]

\* the champion square of the one unit (star level 2) on every modelled board
ChampionUrl == "champion_square"

\* images generateMatchCanvas loads: background, champions, stars
CanvasImages == {BG_URL, ChampionUrl, TIER_STARS[2]}

\* the details a navigation would have if it read the fetched-detail cache again
SessionDetailsRefetched(sessionData) ==
    [id \in { i \in DOMAIN matchDetailCache :
                Fresh(matchDetailCache, i, MATCH_DETAIL_TTL, now) } |->
        matchDetailCache[id].data]

\* line 896: the details a view is rendered from are those of the session
SessionDetails(sessionData) ==
    sessionData.matchDetails

\* lines 886-1004: the view of match `index` of a session.  Yields the reply
\* and the two caches the rendering writes.
showMatch(sessions, canvases, images, dataKey, index, netUp, t) ==
    IF ~Has(sessions, dataKey)
    THEN [outcome |-> "Session expired", canvasCache |-> canvases,
          imageCache |-> images]
    ELSE LET sessionData == sessions[dataKey]
             \* matchIds[index]; 0 stands for undefined
             matchId == IF index + 1 \in DOMAIN sessionData.matchIds
                        THEN sessionData.matchIds[index + 1] ELSE 0
             canvasCacheKey == CanvasKey(dataKey, matchId)
             matchDetails == SessionDetails(sessionData)
             hasDetail == Has(matchDetails, matchId)
         IN  IF Fresh(canvases, canvasCacheKey, CANVAS_CACHE_TTL, t)
             THEN [outcome |-> IF hasDetail THEN "view" ELSE "threw",
                   canvasCache |-> canvases, imageCache |-> images]
             ELSE IF ~hasDetail
             THEN [outcome |-> "Match data not found", canvasCache |-> canvases,
                   imageCache |-> images]
             ELSE [outcome |-> "view",
                   canvasCache |->
                       MapSet(canvases, canvasCacheKey,
                              [canvas |-> matchDetails[matchId],
                               timestamp |-> t]),
                   imageCache |-> LoadImages(images, CanvasImages, netUp, t)]

-----------------------------------------------------------------------------
(* /tft: execute                                                            *)

TftReply(kind, customId, dataKey, outcome, index) ==
    [kind |-> kind, customId |-> customId, dataKey |-> dataKey,
     outcome |-> outcome, index |-> index, riotId |-> <<>>, fetches |-> <<>>]

\* the reply to a /tft command, with the Riot ID it was given and the upstream
\* calls it issued
CommandReply(riotId, fetches, dataKey, outcome, index) ==
    [TftReply("command", <<>>, dataKey, outcome, index)
        EXCEPT !.riotId = riotId, !.fetches = fetches]

ExecuteOutcomes == {"ok", "accountFailed", "summonerFailed", "rankedThrew",
                    "matchesFailed", "noMatches"}

\* lines 740-800: the details a request collects, given the cache it reads
CollectDetails(cache, matchIds, puuid, failing, t) ==
    LET ids == { matchIds[i] : i \in 1..Len(matchIds) }
        got == { id \in ids :
                   \/ Fresh(cache, id, MATCH_DETAIL_TTL, t)
                   \/ id \notin failing /\ puuid \in ParticipantsOf(id) }
    IN  [id \in got |->
            IF Fresh(cache, id, MATCH_DETAIL_TTL, t)
            THEN cache[id].data
            ELSE [matchId |-> id, playerData |-> puuid]]

\* lines 763-767: what the same loop leaves in matchDetailCache
StoreDetails(cache, matchIds, puuid, failing, t) ==
    LET ids == { matchIds[i] : i \in 1..Len(matchIds) }
        fetched == { id \in ids :
                       /\ ~Fresh(cache, id, MATCH_DETAIL_TTL, t)
                       /\ id \notin failing
                       /\ puuid \in ParticipantsOf(id) }
    IN  [id \in DOMAIN cache \cup fetched |->
            IF id \in fetched
            THEN [data |-> [matchId |-> id, playerData |-> puuid], timestamp |-> t]
            ELSE cache[id]]

\* lines 676-680: the account is fetched unless summonerCache has it
AccountCall(stale, ok) == IF stale THEN << Call("account", Me, ok) >> ELSE <<>>

\* lines 744-751: the detail fetches, one for each match id that is not fresh
\* in matchDetailCache
DetailCalls(cache, matchIds, failing, t) ==
    SelectSeq([i \in 1..Len(matchIds) |->
                  Call("match", matchIds[i], matchIds[i] \notin failing)],
              LAMBDA call : ~Fresh(cache, call.arg, MATCH_DETAIL_TTL, t))

\* lines 657-833
ExecuteRequest(caller, riotId, matchCount, upstream, failing, netUp) ==
    /\ IF ~ValidRiotId(riotId)
       THEN /\ lastEvent' = CommandReply(riotId, <<>>, <<>>, "Invalid Riot ID format", -1)
            /\ UNCHANGED cacheVars
       ELSE
       LET cacheKey == ToLowerCase(riotId)
           stale    == AccountStale(summonerCache, cacheKey, now)
       IN
       IF stale /\ upstream = "accountFailed"
       THEN /\ lastEvent' = CommandReply(riotId, AccountCall(TRUE, FALSE), <<>>,
                                         "Riot ID not found", -1)
            /\ UNCHANGED cacheVars
       ELSE
       LET account == IF stale
                      THEN [puuid |-> AccountOf(cacheKey).puuid, timestamp |-> now]
                      ELSE summonerCache[cacheKey]
           matchIds == MatchIdsOf(account.puuid, matchCount)
           dataKey  == DataKey(caller, now)
       IN
       /\ summonerCache' = IF stale THEN MapSet(summonerCache, cacheKey, account)
                           ELSE summonerCache
       /\ IF upstream = "summonerFailed"
          THEN /\ lastEvent' = CommandReply(riotId,
                                    AccountCall(stale, TRUE)
                                      \o << Call("summoner", account.puuid, FALSE) >>,
                                    <<>>, "Summoner not found", -1)
               /\ UNCHANGED <<matchDataCache, matchDetailCache, imageCache, canvasCache>>
          ELSE IF upstream \in {"rankedThrew", "matchesFailed"}
          THEN /\ lastEvent' = CommandReply(riotId,
                                    AccountCall(stale, TRUE)
                                      \o << Call("summoner", account.puuid, TRUE),
                                            Call("league", account.puuid, upstream # "rankedThrew") >>
                                      \o (IF upstream = "rankedThrew" THEN <<>>
                                          ELSE << Call("matchIds", account.puuid, FALSE) >>),
                                    <<>>, "An error occurred", -1)
               /\ UNCHANGED <<matchDataCache, matchDetailCache, imageCache, canvasCache>>
          ELSE IF upstream = "noMatches"
          THEN /\ lastEvent' = CommandReply(riotId,
                                    AccountCall(stale, TRUE)
                                      \o << Call("summoner", account.puuid, TRUE),
                                            Call("league", account.puuid, TRUE),
                                            Call("matchIds", account.puuid, TRUE) >>,
                                    <<>>, "No matches found", -1)
               /\ UNCHANGED <<matchDataCache, matchDetailCache, imageCache, canvasCache>>
          ELSE
          LET allMatchDetails == CollectDetails(matchDetailCache, matchIds,
                                                account.puuid, failing, now)
              details == StoreDetails(matchDetailCache, matchIds,
                                      account.puuid, failing, now)
              preloaded == LoadImages(imageCache,
                               {BG_URL, TIER_STARS[2], TIER_STARS[3]}
                                 \cup (IF details # matchDetailCache
                                       THEN {ChampionUrl} ELSE {}),
                               netUp, now)
              sessionData == [summoner |-> account.puuid,
                              matchIds |-> matchIds,
                              matchDetails |-> allMatchDetails,
                              currentIndex |-> 0,
                              timestamp |-> now]
              sessions == MapSet(matchDataCache, dataKey, sessionData)
              shown == showMatch(sessions, canvasCache, preloaded, dataKey, 0,
                                 netUp, now)
          IN  /\ matchDetailCache' = details
              /\ matchDataCache' = sessions
              /\ canvasCache' = shown.canvasCache
              /\ imageCache' = shown.imageCache
              /\ lastEvent' = CommandReply(riotId,
                                  AccountCall(stale, TRUE)
                                    \o << Call("summoner", account.puuid, TRUE),
                                          Call("league", account.puuid, TRUE),
                                          Call("matchIds", account.puuid, TRUE) >>
                                    \o DetailCalls(matchDetailCache, matchIds,
                                                   failing, now),
                                  dataKey,
                                  IF shown.outcome = "threw"
                                  THEN "An error occurred" ELSE shown.outcome, 0)
    /\ UNCHANGED <<now, nextSweep, rankVars, climbVars, statsVars, asyncVars>>

\* a request received while matchDataCache has room for its session
ExecuteTft(caller, riotId, matchCount, upstream, failing, netUp) ==
    /\ Cardinality(DOMAIN matchDataCache \ {DataKey(caller, now)}) < MaxSessions
    /\ ExecuteRequest(caller, riotId, matchCount, upstream, failing, netUp)

-----------------------------------------------------------------------------
(* /tft: handleButton                                                       *)

\* the two directions exchanged
NewIndexSwapped(currentIndex, action) ==
    currentIndex + (IF action = <<"prev">> THEN 1 ELSE 0)
                 - (IF action = <<"next">> THEN 1 ELSE 0)

\* lines 864-866
NewIndex(currentIndex, action) ==
    currentIndex + (IF action = <<"next">> THEN 1 ELSE 0)
                 - (IF action = <<"prev">> THEN 1 ELSE 0)

\* only the upper end of the list is guarded
NoMoreMatchesUpperOnly(newIndex, length) == newIndex >= length

\* the upper bound off by one
NoMoreMatchesOffByOne(newIndex, length) == newIndex < 0 \/ newIndex > length

\* line 868
NoMoreMatches(newIndex, length) == newIndex < 0 \/ newIndex >= length

\* the cursor moves but the session's clock is not refreshed
NavigatedNoTouch(sessionData, newIndex, t) ==
    [sessionData EXCEPT !.currentIndex = newIndex]

\* lines 876-877
Navigated(sessionData, newIndex, t) ==
    [sessionData EXCEPT !.currentIndex = newIndex, !.timestamp = t]

\* a custom id needs one segment more before it is taken apart
TooFewPartsOfFour(parts) == Len(parts) < 4

\* line 841: parts.length < 3
TooFewParts(parts) == Len(parts) < 3

\* the session key is taken to be the first two segments of the custom id
DataKeyOfTwoSegments(parts) == Join(SubSeq(parts, 1, 2), "_")

\* lines 849-850: parts.pop() leaves the segments of the key; parts.join('_')
DataKeyOf(parts) == Join(SubSeq(parts, 1, Len(parts) - 1), "_")

\* index.js line 63: client.commands.get(interaction.customId.split('_')[0])
ButtonCommand(customId) == Split(customId, "_")[1]

\* index.js line 64: the registered commands that have a handleButton
CommandsWithButtons == { <<"tft">> }

\* lines 835-883
HandleButton(customId, netUp) ==
    LET parts == Split(customId, "_") IN
    /\ IF TooFewParts(parts)
       THEN /\ lastEvent' = TftReply("button", customId, <<>>, "Invalid button data", -1)
            /\ UNCHANGED cacheVars
       ELSE
       LET action  == parts[Len(parts)]
           dataKey == DataKeyOf(parts)
       IN
       IF ~Has(matchDataCache, dataKey)
       THEN /\ lastEvent' = TftReply("button", customId, dataKey, "Session expired", -1)
            /\ UNCHANGED cacheVars
       ELSE
       LET sessionData == matchDataCache[dataKey]
           newIndex == NewIndex(sessionData.currentIndex, action)
       IN
       IF NoMoreMatches(newIndex, Len(sessionData.matchIds))
       THEN /\ lastEvent' = TftReply("button", customId, dataKey, "No more matches", -1)
            /\ UNCHANGED cacheVars
       ELSE
       LET sessions == [matchDataCache EXCEPT
                          ![dataKey] = Navigated(sessionData, newIndex, now)]
           shown == showMatch(sessions, canvasCache, imageCache, dataKey,
                              newIndex, netUp, now)
       IN  /\ matchDataCache' = sessions
           /\ canvasCache' = shown.canvasCache
           /\ imageCache' = shown.imageCache
           /\ lastEvent' = TftReply("button", customId, dataKey, shown.outcome, newIndex)
           /\ UNCHANGED <<summonerCache, matchDetailCache>>
    /\ UNCHANGED <<now, nextSweep, rankVars, climbVars, statsVars, asyncVars>>

\* the custom ids the transport delivers: the two buttons of the view of
\* every stored session and of a view rendered at time 0 (its session may be
\* gone by now), and ids that no view carries
CustomIds(sessions) ==
    { k \o <<"_", a>> :
        k \in DOMAIN sessions \cup { DataKey(c, 0) : c \in Callers },
        a \in {"prev", "next"} }
    \cup { <<"tft">>, <<"tft", "_", "next">>, <<"tft", "_", "x", "_", "next">>,
           <<"tft", "_", "u1", "_", "0", "_", "first">> }

-----------------------------------------------------------------------------
(* /tft: timers                                                             *)

\* lines 567-593, run by the setInterval of line 595
cleanupOldCacheEntries ==
    /\ now = nextSweep
    /\ nextSweep' = nextSweep + SWEEP_INTERVAL
    /\ matchDataCache' = SweepMap(matchDataCache, MATCH_DATA_TTL, now)
    /\ matchDetailCache' = SweepMap(matchDetailCache, MATCH_DETAIL_TTL, now)
    /\ canvasCache' = SweepMap(canvasCache, CANVAS_CACHE_TTL, now)
    /\ imageCache' = SweepMap(imageCache, IMAGE_CACHE_TTL, now)
    /\ lastEvent' = TftReply("sweep", <<>>, <<>>, "none", -1)
    /\ UNCHANGED <<now, summonerCache, handled, rankVars, climbVars, statsVars, asyncVars>>

\* the clock advances up to limit; a due timer fires before time moves on
Tick(limit) ==
    /\ now < limit
    /\ now < nextSweep
    /\ now' = now + 1
    /\ lastEvent' = TftReply("tick", <<>>, <<>>, "none", -1)
    /\ UNCHANGED <<nextSweep, cacheVars, handled, rankVars, climbVars, statsVars, asyncVars>>

\* one command or button press more
Handle(limit) == handled < limit /\ handled' = handled + 1

\* commands and presses at any time of the run; image downloads succeed
TftNext ==
    \/ /\ Handle(MaxEvents)
       /\ \E caller \in Callers, riotId \in TftRiotIds, upstream \in ExecuteOutcomes :
          \E matchCount \in IF upstream = "ok" THEN TftMatchCounts ELSE {1} :
             \E failing \in IF upstream = "ok" THEN FailingSets(matchCount) ELSE {{}} :
                ExecuteTft(caller, riotId, matchCount, upstream, failing, TRUE)
    \/ /\ Handle(MaxEvents)
       /\ \E customId \in CustomIds(matchDataCache) :
             /\ ButtonCommand(customId) \in CommandsWithButtons
             /\ HandleButton(customId, TRUE)
    \/ cleanupOldCacheEntries
    \/ Tick(MaxTime)

\* one request whose fetches all succeeded and one user paging through its
\* matches within the first sweep periods; image downloads may fail
ScenarioMatches == 5
ScenarioEvents == 6
ScenarioTime == 1

NavNext ==
    \/ /\ Handle(ScenarioEvents)
       /\ matchDataCache = EmptyMap
       /\ \E caller \in Callers, matchCount \in {ScenarioMatches - 1, ScenarioMatches},
             netUp \in BOOLEAN :
             ExecuteTft(caller, <<"K", "#", "N">>, matchCount, "ok", {}, netUp)
    \/ /\ Handle(ScenarioEvents)
       /\ \E customId \in CustomIds(matchDataCache), netUp \in BOOLEAN :
             /\ ButtonCommand(customId) \in CommandsWithButtons
             /\ HandleButton(customId, netUp)
    \/ cleanupOldCacheEntries
    \/ Tick(ScenarioTime)

(* /tft-stats execute (src/commands/tft-stats.js)                           *)

NoStats ==
    [riotId |-> <<>>, reply |-> "none", fetches |-> <<>>, placements |-> <<>>,
     matchList |-> <<>>]

StatsIdle == statsEvent = NoStats

\* what the fetches after the summoner fetch can do: lines 61-70 test no
\* status, so only a rejected fetch ends the request
StatsTails == {"ok", "rankedThrew", "matchIdsThrew"}

\* lines 86-111: the matches read before the loop ends or match.info of an
\* error body throws
RECURSIVE StatsRead(_, _)
StatsRead(matches, i) ==
    IF i > Len(matches) THEN 0
    ELSE IF ~matches[i].ok THEN 1
    ELSE 1 + StatsRead(matches, i + 1)

\* lines 91-98: the placements pushed for the matches the player is found in
RECURSIVE StatsPlacements(_, _)
StatsPlacements(matches, i) ==
    IF i > Len(matches) THEN <<>>
    ELSE LET IsMe(p) == p.puuid = Me
             me == FindIndex(matches[i].participants, IsMe)
         IN  (IF me = 0 THEN <<>> ELSE << matches[i].participants[me].placement >>)
               \o StatsPlacements(matches, i + 1)

StatsReply(riotId, reply, fetches, placements) ==
    [riotId |-> riotId, reply |-> reply, fetches |-> fetches,
     placements |-> placements, matchList |-> <<>>]

\* the reply of a request that got a non-empty list of match ids; matchList
\* is what upstream answers for these ids, in the order of the list
StatsLoopReply(riotId, reply, fetches, placements, matches) ==
    [StatsReply(riotId, reply, fetches, placements) EXCEPT !.matchList = matches]

\* lines 19-187
ExecuteStats(riotId, accountOk, summonerOk, tail, matches) ==
    /\ statsEvent' =
         IF ~ValidRiotId(riotId)
           THEN StatsReply(riotId, "Invalid Riot ID format", <<>>, <<>>)
         ELSE IF ~accountOk
           THEN StatsReply(riotId, "Riot ID not found",
                           << Call("account", Me, FALSE) >>, <<>>)
         ELSE IF ~summonerOk
           THEN StatsReply(riotId, "Summoner not found",
                           << Call("account", Me, TRUE),
                              Call("summoner", Me, FALSE) >>, <<>>)
         ELSE IF tail = "rankedThrew"
           THEN StatsReply(riotId, "An error occurred",
                           << Call("account", Me, TRUE), Call("summoner", Me, TRUE),
                              Call("league", Me, FALSE) >>, <<>>)
         ELSE IF tail = "matchIdsThrew"
           THEN StatsReply(riotId, "An error occurred",
                           << Call("account", Me, TRUE), Call("summoner", Me, TRUE),
                              Call("league", Me, TRUE),
                              Call("matchIds", Me, FALSE) >>, <<>>)
         ELSE LET prelude == << Call("account", Me, TRUE), Call("summoner", Me, TRUE),
                                Call("league", Me, TRUE), Call("matchIds", Me, TRUE) >>
                  read == StatsRead(matches, 1)
                  calls == [i \in 1..read |-> Call("match", i, matches[i].ok)]
              IN  IF Len(matches) = 0
                  THEN StatsReply(riotId, "No recent matches found", prelude, <<>>)
                  ELSE IF \E i \in 1..Len(matches) : ~matches[i].ok
                  THEN StatsLoopReply(riotId, "An error occurred", prelude \o calls,
                                      <<>>, matches)
                  ELSE StatsLoopReply(riotId, "embed", prelude \o calls,
                                      StatsPlacements(matches, 1), matches)
    /\ UNCHANGED <<rankVars, climbVars, tftVars, asyncVars>>

-----------------------------------------------------------------------------
\* longest match list of a request that is run twice
TwiceMatches == 1

\* what upstream answers to the prelude of one request
ExecuteInput(riotId, accountOk, summonerOk, rankedOk, rankedStats, matchesRes, matches) ==
    [riotId |-> riotId, accountOk |-> accountOk, summonerOk |-> summonerOk,
     rankedOk |-> rankedOk, rankedStats |-> rankedStats, matchesRes |-> matchesRes,
     matches |-> matches]

\* /tft-climb execute on recorded upstream answers
ClimbExecuteGiven(given) ==
    /\ climbInputs' = << given >>
    /\ ClimbExecute(given.riotId, given.accountOk, given.summonerOk,
                    given.rankedOk, given.rankedStats, given.matchesRes,
                    given.matches)

\* /tft-climb execute on any upstream answers, with at most most matches
ClimbExecuteAny(most) ==
    \E riotId \in RiotIds, accountOk \in BOOLEAN, summonerOk \in BOOLEAN,
       rankedOk \in BOOLEAN, rankedStats \in RankedStatsPool :
       \E matchesRes \in IF accountOk /\ summonerOk /\ rankedOk
                          THEN MatchIdsOutcomes ELSE {"ok"} :
          \E matches \in IF accountOk /\ summonerOk /\ rankedOk /\ matchesRes = "ok"
                          THEN ClimbMatchListsUpTo(most) ELSE {<<>>} :
             ClimbExecuteGiven(
                 ExecuteInput(riotId, accountOk, summonerOk, rankedOk,
                              rankedStats, matchesRes, matches))

\* one iteration of the loop on a recorded lookup outcome
ClimbMatchGiven(given) ==
    /\ ClimbMatch(given.partnerFetch)
    /\ climbInputs' = Append(climbInputs, given)

\* the same /tft-climb request twice: upstream answers the second request as
\* it answered the first, at once or after a /tft request and a sweep period
TwiceNext ==
    \/ /\ climbPc = "idle"
       /\ firstRun = NoRun
       /\ UNCHANGED firstRun
       /\ ClimbExecuteAny(TwiceMatches)
    \/ /\ climbPc = "idle"
       /\ firstRun # NoRun
       /\ summonerCache = EmptyMap \/ now > 0
       /\ UNCHANGED firstRun
       /\ ClimbExecuteGiven(firstRun.inputs[1])
    \/ /\ climbPc = "loop"
       /\ firstRun = NoRun
       /\ UNCHANGED firstRun
       /\ \E partnerFetch \in PartnerFetchOutcomes :
             ClimbMatchGiven([partnerFetch |-> partnerFetch])
    \/ /\ climbPc = "loop"
       /\ firstRun # NoRun
       /\ matchIdx <= Len(matchList)
       /\ UNCHANGED firstRun
       /\ ClimbMatchGiven(firstRun.inputs[Len(climbInputs) + 1])
    \/ ClimbFinish /\ UNCHANGED <<climbInputs, firstRun>>
    \/ ClimbReturn
    \/ /\ climbPc = "idle"
       /\ firstRun # NoRun
       /\ summonerCache = EmptyMap
       /\ Handle(MaxEvents)
       /\ \E caller \in Callers :
             ExecuteTft(caller, <<"K", "#", "N">>, 1, "ok", {}, TRUE)
    \/ /\ climbPc = "idle"
       /\ firstRun # NoRun
       /\ summonerCache # EmptyMap
       /\ Tick(SWEEP_INTERVAL)

\* most /tft commands before the one /tft-climb or /tft-stats command, and
\* the longest match list of that command
FormatEvents == 2
FormatMatches == 1

\* /tft commands with any Riot ID up to the first rejected one, then one
\* /tft-climb or one /tft-stats command with any Riot ID; partner lookups
\* succeed
FormatNext ==
    \/ /\ climbPc = "idle"
       /\ StatsIdle
       /\ lastEvent.outcome # "Invalid Riot ID format"
       /\ Handle(FormatEvents)
       /\ \E caller \in Callers, riotId \in RiotIds :
             ExecuteTft(caller, riotId, 1, "ok", {}, TRUE)
    \/ /\ climbPc = "idle"
       /\ StatsIdle
       /\ UNCHANGED firstRun
       /\ ClimbExecuteAny(FormatMatches)
    \/ /\ climbPc = "loop"
       /\ UNCHANGED firstRun
       /\ ClimbMatchGiven([partnerFetch |-> "ok"])
    \/ ClimbFinish /\ UNCHANGED <<climbInputs, firstRun>>
    \/ /\ climbPc = "idle"
       /\ StatsIdle
       /\ \E riotId \in RiotIds, accountOk \in BOOLEAN, summonerOk \in BOOLEAN,
             tail \in StatsTails, matches \in ClimbMatchListsUpTo(FormatMatches) :
             ExecuteStats(riotId, accountOk, summonerOk, tail, matches)

\* longest match list of a request whose detail fetches may fail
SkipMatches == 2

\* one /tft-climb or one /tft-stats request of a player who is found and
\* ranked, over any answers to its match detail fetches
SkipNext ==
    \/ /\ climbPc = "idle"
       /\ StatsIdle
       /\ UNCHANGED firstRun
       /\ \E rankedStats \in RankedStatsPool, matches \in ClimbMatchListsUpTo(SkipMatches) :
             ClimbExecuteGiven(ExecuteInput(<<"K", "#", "N">>, TRUE, TRUE, TRUE,
                                            rankedStats, "ok", matches))
    \/ /\ climbPc = "loop"
       /\ UNCHANGED firstRun
       /\ \E partnerFetch \in PartnerFetchOutcomes :
             ClimbMatchGiven([partnerFetch |-> partnerFetch])
    \/ ClimbFinish /\ UNCHANGED <<climbInputs, firstRun>>
    \/ /\ climbPc = "idle"
       /\ StatsIdle
       /\ \E matches \in ClimbMatchListsUpTo(SkipMatches) :
             ExecuteStats(<<"K", "#", "N">>, TRUE, TRUE, "ok", matches)

\* longest match-id list of a request whose matches are full lobbies
LobbyMatches == 2

\* the puuid of the participant that took raw placement i in a lobby
LobbyPuuid(i, mine) ==
    IF i = mine THEN Me
    ELSE <<"P1", "P2", "P3", "P4", "P5", "P6", "P7", "P8">>[i]

\* a Double Up match with eight participants holding raw placements 1..8, the
\* requested player at placement `mine`
Lobby(mine) ==
    [ok |-> TRUE, type |-> "pairs",
     participants |-> [i \in 1..8 |-> [puuid |-> LobbyPuuid(i, mine), placement |-> i]],
     ts |-> 0]

LobbyLists ==
    UNION { { Stamp(l, "newestFirst") : l \in [1..n -> { Lobby(p) : p \in 1..8 }] } :
            n \in 1..LobbyMatches }

\* one /tft-climb request of a ranked player whose matches are full lobbies
LobbyNext ==
    \/ /\ climbPc = "idle"
       /\ UNCHANGED <<climbInputs, firstRun>>
       /\ \E matches \in LobbyLists :
             ClimbExecute(<<"K", "#", "N">>, TRUE, TRUE, TRUE,
                          << RankEntry("RANKED_TFT_PAIRS", "GOLD", "II", 40) >>,
                          "ok", matches)
    \/ /\ climbPc = "loop"
       /\ UNCHANGED <<climbInputs, firstRun>>
       /\ \E partnerFetch \in PartnerFetchOutcomes : ClimbMatch(partnerFetch)
    \/ ClimbFinish /\ UNCHANGED <<climbInputs, firstRun>>

-----------------------------------------------------------------------------
(* /tft handlers as the event loop runs them: one step per stretch of code  *)
(* between two awaits                                                       *)

\* most button interactions in flight in one run
MaxPresses == 3

\* length of the match-id list of the request in flight
AsyncMatches == 3

\* the handlers started so far, numbered in the order they started
Presses == DOMAIN press

NoRender == [key |-> <<>>, canvas |-> [matchId |-> 0, playerData |-> "none"]]

\* a handler that has replied
PressDone(outcome) == [pc |-> "done", outcome |-> outcome]

\* no command has been received
NoRequest == [pc |-> "idle"]

\* no view has been sent
NoView == [dataKey |-> <<>>, index |-> -1]

\* lines 975-1001: the payload of match `index` of the session, with its
\* buttons
View(dataKey, index) == [dataKey |-> dataKey, index |-> index]

AsyncIdle ==
    /\ press = <<>>
    /\ pressLog = <<>>
    /\ request = NoRequest
    /\ delivered = NoView

\* lines 899-925: the canvas showMatch goes on to generate, read off the
\* cache entry it will write
RenderOf(sessions, shown, dataKey, index) ==
    LET key == CanvasKey(dataKey, sessions[dataKey].matchIds[index + 1])
    IN  [key |-> key, canvas |-> shown.canvasCache[key].canvas]

\* line 804 is not awaited: the session is stored while fetches are pending
AllSettledNotAwaited(pending) == TRUE

\* line 804: await Promise.allSettled(preGenerationPromises)
AllSettled(pending) == pending = {}

\* lines 657-800: the command up to the start of the per-match tasks; a task
\* whose match is cached finishes before its first await (lines 744-748)
RequestStart(caller, riotId, matchCount) ==
    /\ request.pc = "idle"
    /\ ValidRiotId(riotId)
    /\ LET cacheKey == ToLowerCase(riotId)
           stale == AccountStale(summonerCache, cacheKey, now)
           account == IF stale
                      THEN [puuid |-> AccountOf(cacheKey).puuid, timestamp |-> now]
                      ELSE summonerCache[cacheKey]
           matchIds == MatchIdsOf(account.puuid, matchCount)
           ids == { matchIds[i] : i \in 1..Len(matchIds) }
           cached == { id \in ids : Fresh(matchDetailCache, id, MATCH_DETAIL_TTL, now) }
       IN  /\ summonerCache' = IF stale THEN MapSet(summonerCache, cacheKey, account)
                               ELSE summonerCache
           /\ request' = [pc |-> "fetching", caller |-> caller,
                          matchIds |-> matchIds, pending |-> ids \ cached,
                          allMatchDetails |->
                              [id \in cached |-> matchDetailCache[id].data],
                          dataKey |-> <<>>, outcome |-> "none",
                          render |-> NoRender]
    /\ UNCHANGED <<now, nextSweep, matchDataCache, matchDetailCache, imageCache,
                   canvasCache, lastEvent, handled, press, pressLog, delivered,
                   rankVars, climbVars, statsVars>>

\* lines 752-794: one per-match task resumes with the answer to its fetch.
\* allMatchDetails is the object a stored session refers to (line 817).
RequestFetched(matchId, ok) ==
    /\ request.pc # "idle"
    /\ matchId \in request.pending
    /\ IF ok /\ Me \in ParticipantsOf(matchId)
       THEN LET matchDetail == [matchId |-> matchId, playerData |-> Me]
                details == MapSet(request.allMatchDetails, matchId, matchDetail)
            IN  /\ matchDetailCache' =
                     MapSet(matchDetailCache, matchId,
                            [data |-> matchDetail, timestamp |-> now])
                /\ imageCache' = LoadImages(imageCache, {ChampionUrl}, TRUE, now)
                /\ request' = [request EXCEPT !.pending = @ \ {matchId},
                                              !.allMatchDetails = details]
                /\ matchDataCache' =
                     IF request.pc # "fetching" /\ Has(matchDataCache, request.dataKey)
                     THEN [matchDataCache EXCEPT
                             ![request.dataKey].matchDetails = details]
                     ELSE matchDataCache
       ELSE /\ request' = [request EXCEPT !.pending = @ \ {matchId}]
            /\ UNCHANGED <<matchDetailCache, imageCache, matchDataCache>>
    /\ UNCHANGED <<now, nextSweep, summonerCache, canvasCache, lastEvent, handled,
                   press, pressLog, delivered, rankVars, climbVars, statsVars>>

\* lines 803-827 and 886-917: the tasks have settled; the session is stored
\* and showMatch runs up to generateMatchCanvas
RequestStore ==
    /\ request.pc = "fetching"
    /\ AllSettled(request.pending)
    /\ LET dataKey == DataKey(request.caller, now)
           sessionData == [summoner |-> Me,
                           matchIds |-> request.matchIds,
                           matchDetails |-> request.allMatchDetails,
                           currentIndex |-> 0,
                           timestamp |-> now]
           sessions == MapSet(matchDataCache, dataKey, sessionData)
           preloaded == LoadImages(imageCache, {BG_URL, TIER_STARS[2], TIER_STARS[3]},
                                   TRUE, now)
           shown == showMatch(sessions, canvasCache, preloaded, dataKey, 0, TRUE, now)
       IN  /\ matchDataCache' = sessions
           /\ imageCache' = preloaded
           /\ request' =
                IF shown.canvasCache = canvasCache
                THEN [request EXCEPT !.pc = "done", !.dataKey = dataKey,
                                     !.outcome = shown.outcome]
                ELSE [request EXCEPT !.pc = "canvas", !.dataKey = dataKey,
                                     !.render = RenderOf(sessions, shown, dataKey, 0)]
           /\ delivered' = IF shown.canvasCache = canvasCache /\ shown.outcome = "view"
                           THEN View(dataKey, 0) ELSE delivered
    /\ UNCHANGED <<now, nextSweep, summonerCache, matchDetailCache, canvasCache,
                   lastEvent, handled, press, pressLog, rankVars, climbVars, statsVars>>

\* lines 919-1004: the canvas is there; it is cached and the view is sent
RequestRendered ==
    /\ request.pc = "canvas"
    /\ canvasCache' = MapSet(canvasCache, request.render.key,
                             [canvas |-> request.render.canvas, timestamp |-> now])
    /\ imageCache' = LoadImages(imageCache, CanvasImages, TRUE, now)
    /\ request' = [request EXCEPT !.pc = "done", !.outcome = "view",
                                  !.render = NoRender]
    /\ delivered' = View(request.dataKey, 0)
    /\ UNCHANGED <<now, nextSweep, summonerCache, matchDataCache, matchDetailCache,
                   lastEvent, handled, press, pressLog, rankVars, climbVars, statsVars>>

\* the cursor is written only when the handler resumes after deferUpdate
CursorWriteStepDeferred == "deferred"

\* lines 876-877 precede the first await of the handler (line 881)
CursorWriteStep == "start"

\* lines 835-881: handleButton up to `await interaction.deferUpdate()`.
PressStart(customId) ==
    /\ Len(press) < MaxPresses
    /\ LET parts == Split(customId, "_") IN
       IF TooFewParts(parts)
       THEN /\ press' = Append(press, PressDone("Invalid button data"))
            /\ UNCHANGED <<matchDataCache, pressLog>>
       ELSE
       LET action  == parts[Len(parts)]
           dataKey == DataKeyOf(parts)
       IN
       IF ~Has(matchDataCache, dataKey)
       THEN /\ press' = Append(press, PressDone("Session expired"))
            /\ UNCHANGED <<matchDataCache, pressLog>>
       ELSE
       LET sessionData == matchDataCache[dataKey]
           newIndex == NewIndex(sessionData.currentIndex, action)
       IN
       /\ pressLog' = Append(pressLog, action)
       /\ IF NoMoreMatches(newIndex, Len(sessionData.matchIds))
          THEN /\ press' = Append(press, PressDone("No more matches"))
               /\ UNCHANGED matchDataCache
          ELSE /\ press' = Append(press, [pc |-> "deferUpdate", action |-> action,
                                           dataKey |-> dataKey,
                                           newIndex |-> newIndex,
                                           render |-> NoRender])
               /\ matchDataCache' =
                    IF CursorWriteStep = "start"
                    THEN [matchDataCache EXCEPT
                            ![dataKey] = Navigated(sessionData, newIndex, now)]
                    ELSE matchDataCache
    /\ UNCHANGED <<now, nextSweep, summonerCache, matchDetailCache, imageCache,
                   canvasCache, lastEvent, handled, request, delivered,
                   rankVars, climbVars, statsVars>>

\* lines 882 and 886-917: the handler resumes and showMatch runs up to
\* generateMatchCanvas
PressDeferred(p) ==
    /\ p \in Presses
    /\ press[p].pc = "deferUpdate"
    /\ LET dataKey == press[p].dataKey
           newIndex == press[p].newIndex
           sessions == IF CursorWriteStep = "deferred" /\ Has(matchDataCache, dataKey)
                       THEN [matchDataCache EXCEPT
                               ![dataKey] = Navigated(@, newIndex, now)]
                       ELSE matchDataCache
           shown == showMatch(sessions, canvasCache, imageCache, dataKey, newIndex,
                              TRUE, now)
       IN  /\ matchDataCache' = sessions
           /\ press' =
                IF shown.canvasCache = canvasCache
                THEN [press EXCEPT ![p] = PressDone(shown.outcome)]
                ELSE [press EXCEPT ![p].pc = "canvas",
                                   ![p].render =
                                       RenderOf(sessions, shown, dataKey, newIndex)]
           /\ delivered' = IF shown.canvasCache = canvasCache /\ shown.outcome = "view"
                           THEN View(dataKey, newIndex) ELSE delivered
    /\ UNCHANGED <<now, nextSweep, summonerCache, matchDetailCache, imageCache,
                   canvasCache, lastEvent, handled, pressLog, request,
                   rankVars, climbVars, statsVars>>

\* lines 919-1004: the canvas is there; it is cached and the view is sent
PressRendered(p) ==
    /\ p \in Presses
    /\ press[p].pc = "canvas"
    /\ canvasCache' = MapSet(canvasCache, press[p].render.key,
                             [canvas |-> press[p].render.canvas, timestamp |-> now])
    /\ imageCache' = LoadImages(imageCache, CanvasImages, TRUE, now)
    /\ press' = [press EXCEPT ![p] = PressDone("view")]
    /\ delivered' = View(press[p].dataKey, press[p].newIndex)
    /\ UNCHANGED <<now, nextSweep, summonerCache, matchDataCache, matchDetailCache,
                   lastEvent, handled, pressLog, request,
                   rankVars, climbVars, statsVars>>

\* the buttons of the view of the request in flight
AsyncCustomIds ==
    { DataKey(c, 0) \o <<"_", a>> : c \in Callers, a \in {"prev", "next"} }

\* one /tft request and button presses on its view, interleaved at the awaits
AsyncNext ==
    \/ \E caller \in Callers : RequestStart(caller, <<"K", "#", "N">>, AsyncMatches)
    \/ \E matchId \in 1..AsyncMatches, ok \in BOOLEAN : RequestFetched(matchId, ok)
    \/ RequestStore
    \/ RequestRendered
    \/ \E customId \in AsyncCustomIds :
          /\ ButtonCommand(customId) \in CommandsWithButtons
          /\ PressStart(customId)
    \/ \E p \in Presses : PressDeferred(p)
    \/ \E p \in Presses : PressRendered(p)

-----------------------------------------------------------------------------
(* Specifications                                                           *)

InitRank == rankIn \in ValidRankPoints /\ rankTotal = -1 /\ rankOut = NoRank
            /\ rankPrev = NoPrev /\ ClimbIdle /\ TftIdle /\ StatsIdle /\ AsyncIdle
NextRank == ToTotal \/ FromTotal
SpecRank == InitRank /\ [][NextRank]_vars

InitMono == rankIn = NoRank /\ rankTotal \in Totals /\ rankOut = NoRank
            /\ rankPrev = NoPrev /\ ClimbIdle /\ TftIdle /\ StatsIdle /\ AsyncIdle
NextMono ==
    \/ FromFirstTotal
    \/ \E b \in (rankTotal + 1)..Min(rankTotal + MaxGap, MaxTotal) : FromHigherTotal(b)
SpecMono == InitMono /\ [][NextMono]_vars

InitClimb == RankIdle /\ ClimbIdle /\ TftIdle /\ StatsIdle /\ AsyncIdle
SpecClimb == InitClimb /\ [][ClimbNext]_vars

Init == RankIdle /\ ClimbIdle /\ TftIdle /\ StatsIdle /\ AsyncIdle
Next == TftNext
Spec == Init /\ [][Next]_vars

SpecNav == Init /\ [][NavNext]_vars

SpecTwice == InitClimb /\ [][TwiceNext]_vars

SpecFormat == Init /\ [][FormatNext]_vars

SpecSkip == Init /\ [][SkipNext]_vars

SpecAsync == Init /\ [][AsyncNext]_vars

SpecLobby == InitClimb /\ [][LobbyNext]_vars

-----------------------------------------------------------------------------
(* Properties of the rank linearization                                     *)

\* C1: every valid RankPoint r, apex points above 99 included, comes back
\* unchanged from getTierFromTotalLP(calculateTotalLP(r)).
C1_RoundTrip == rankOut # NoRank => rankOut = rankIn

\* position of a result in the order by tier, then division, then points
RankKey(r) ==
    << TierIndex(r.tier), DivisionLP(RANK_TIERS[TierIndex(r.tier)], r.rank), r.lp >>

\* lexicographic order on (tier, division, points)
RankLE(r1, r2) ==
    LET k1 == RankKey(r1)
        k2 == RankKey(r2)
    IN  \/ k1[1] < k2[1]
        \/ k1[1] = k2[1] /\ k1[2] < k2[2]
        \/ k1[1] = k2[1] /\ k1[2] = k2[2] /\ k1[3] <= k2[3]

\* C17: for totals a < b, negative ones included, getTierFromTotalLP(a) is
\* not higher than getTierFromTotalLP(b) in the order by tier, division and
\* points.
C17_Monotone ==
    rankPrev # NoPrev =>
        /\ rankPrev.total < rankTotal
        /\ RankLE(rankPrev.out, rankOut)

\* a negative total followed by a positive one
C17_Witness ==
    /\ rankPrev # NoPrev
    /\ rankPrev.total < 0
    /\ rankTotal > 0
    /\ rankOut = getTierFromTotalLP(rankTotal)

\* C18: two different valid RankPoints never have the same total, and the
\* total is the tier's base plus the division's offset plus the points.
C18_Injective ==
    rankTotal # -1 /\ rankIn # NoRank =>
        /\ rankTotal = RANK_TIERS[TierIndex(rankIn.tier)].base
                        + DivisionLP(RANK_TIERS[TierIndex(rankIn.tier)], rankIn.rank)
                        + rankIn.lp
        /\ \A r \in ValidRankPoints :
              calculateTotalLP(r.tier, r.rank, r.lp) = rankTotal => r = rankIn

-----------------------------------------------------------------------------
(* Properties of the /tft-climb timeline                                    *)

\* lines 188-196: the matches that contribute a point
Qualifies(match) ==
    /\ match.ok
    /\ match.type = "pairs"
    /\ \E i \in 1..Len(match.participants) : match.participants[i].puuid = Me

\* lines 240-250: the LP change the code assigns to a qualifying match
LpDeltaOf(match) ==
    LET me == CHOOSE i \in 1..Len(match.participants) :
                  match.participants[i].puuid = Me
    IN  LpChangeOf(TeamPlacement(match.participants[me].placement))

\* the qualifying matches of the request, oldest first, equal timestamps in
\* fetch order
ChronologicalOutcomes ==
    LET q == SelectSeq(matchList, Qualifies)
        Position(j) == 1 + Cardinality({ k \in 1..Len(q) :
                             \/ q[k].ts < q[j].ts
                             \/ q[k].ts = q[j].ts /\ k < j })
    IN  [i \in 1..Len(q) |-> q[CHOOSE j \in 1..Len(q) : Position(j) = i]]

RECURSIVE SumOfDeltas(_)
SumOfDeltas(outcomes) ==
    IF outcomes = <<>> THEN 0
    ELSE LpDeltaOf(Head(outcomes)) + SumOfDeltas(Tail(outcomes))

AnchorTotal ==
    calculateTotalLP(currentRank.tier, currentRank.rank, currentRank.leaguePoints)

\* C2: the last point of the timeline handed to rendering has the total LP
\* of the current (anchor) rank.
C2_LastPointIsAnchor ==
    climbReply = "graph" => climbData[Len(climbData)].totalLP = AnchorTotal

\* C3: in the rendered timeline, point i minus point i-1 is the LP change of
\* the i-th qualifying match in chronological order.
C3_DeltaConsistency ==
    climbReply = "graph" =>
        /\ Len(climbData) = Len(ChronologicalOutcomes) + 1
        /\ \A i \in 1..Len(ChronologicalOutcomes) :
              climbData[i + 1].totalLP - climbData[i].totalLP
                  = LpDeltaOf(ChronologicalOutcomes[i])

\* C4: the point with gameIndex 0 is the synthetic start: anchor total minus
\* the sum of all deltas, ranked by getTierFromTotalLP, no placement, no partner.
C4_StartPoint ==
    climbReply = "graph" =>
        LET startTotal == AnchorTotal - SumOfDeltas(ChronologicalOutcomes)
            rank == getTierFromTotalLP(startTotal)
            p == climbData[1]
        IN  /\ p.gameNumber = 0
            /\ p.totalLP = startTotal
            /\ p.tier = rank.tier /\ p.rank = rank.rank /\ p.lp = rank.lp
            /\ p.placement = 0
            /\ p.partner = "null"

-----------------------------------------------------------------------------
(* Properties of /tft sessions and caches                                   *)

\* the event handled in this step is a press of button `dir` of session key
Pressed(key, dir) ==
    /\ lastEvent'.kind = "button"
    /\ lastEvent'.customId = key \o <<"_", dir>>

Directions == {"prev", "next"}

Step(dir) == IF dir = "next" THEN 1 ELSE -1

\* C5: on a stored session 'previous' moves the cursor to cursor-1 and 'next'
\* to cursor+1 when that lies in [0, N-1]; otherwise the press is answered
\* "no more matches" and neither the session nor any cache changes.
C5_Navigate ==
    [][ \A key \in DOMAIN matchDataCache, dir \in Directions :
          Pressed(key, dir) =>
            LET sessionData == matchDataCache[key]
                target == sessionData.currentIndex + Step(dir)
            IN  IF target >= 0 /\ target <= Len(sessionData.matchIds) - 1
                THEN /\ lastEvent'.outcome # "No more matches"
                     /\ key \in DOMAIN matchDataCache'
                     /\ matchDataCache'[key].currentIndex = target
                ELSE /\ lastEvent'.outcome = "No more matches"
                     /\ UNCHANGED cacheVars ]_vars

\* a refused 'next' at the end of a list the cursor has moved along
C5_Witness ==
    /\ lastEvent.kind = "button"
    /\ lastEvent.outcome = "No more matches"
    /\ lastEvent.dataKey \in DOMAIN matchDataCache
    /\ lastEvent.customId = lastEvent.dataKey \o <<"_", "next">>
    /\ LET sessionData == matchDataCache[lastEvent.dataKey]
       IN  /\ Len(sessionData.matchIds) >= 2
           /\ sessionData.currentIndex = Len(sessionData.matchIds) - 1

\* C6 as written: on a fresh session of five matches each of the first five
\* 'next' presses moves the cursor and only the sixth is refused.  A session
\* exists only after one command, so a press made when at most five events
\* were handled is at most the fifth press on it.
C6_FiveNextsMove ==
    [][ \A key \in DOMAIN matchDataCache :
          /\ Pressed(key, "next")
          /\ Len(matchDataCache[key].matchIds) = 5
          /\ handled <= 5
          => lastEvent'.outcome # "No more matches" ]_vars

\* C6, amended: a session of five matches is created with cursor 0; 'previous'
\* at cursor 0 is refused and leaves 0; 'next' at cursor 0..3 moves to 1..4
\* (four presses); 'next' at cursor 4 (the fifth press) is refused and
\* leaves 4.
C6_Scenario ==
    [][ /\ \A key \in DOMAIN matchDataCache' :
             /\ lastEvent'.kind = "command"
             /\ lastEvent'.dataKey = key
             => matchDataCache'[key].currentIndex = 0
        /\ \A key \in DOMAIN matchDataCache :
             Len(matchDataCache[key].matchIds) = 5 =>
               LET cursor == matchDataCache[key].currentIndex
                   refused == /\ lastEvent'.outcome = "No more matches"
                              /\ matchDataCache'[key].currentIndex = cursor
               IN  /\ Pressed(key, "prev") /\ cursor = 0 => refused
                   /\ Pressed(key, "next") /\ cursor = 4 => refused
                   /\ Pressed(key, "next") /\ cursor < 4 =>
                        /\ lastEvent'.outcome # "No more matches"
                        /\ matchDataCache'[key].currentIndex = cursor + 1 ]_vars

\* six events handled: the command, four 'next' presses that moved the cursor
\* to 4, and a fifth 'next' that was refused
C6_Witness ==
    /\ handled = 6
    /\ lastEvent.kind = "button"
    /\ lastEvent.outcome = "No more matches"
    /\ lastEvent.dataKey \in DOMAIN matchDataCache
    /\ lastEvent.customId = lastEvent.dataKey \o <<"_", "next">>
    /\ Len(matchDataCache[lastEvent.dataKey].matchIds) = 5
    /\ matchDataCache[lastEvent.dataKey].currentIndex = 4

\* the cache key of the one well-formed Riot ID
KnCacheKey == ToLowerCase(<<"K", "#", "N">>)

\* C7: a reader uses a stored value only while now - storedAt < TTL of its
\* tier; an entry of age >= TTL is treated as absent and the value is fetched
\* or generated again, swept or not.  Stated for the identity, per-match
\* detail and rendered-frame tiers: a read of an entry that old either ends
\* in a failure of the new fetch or leaves a value stored at `now`.
C7_LazyExpiry ==
    [][ /\ ( /\ lastEvent'.kind = "command"
             /\ lastEvent'.outcome # "Invalid Riot ID format"
             /\ Has(summonerCache, KnCacheKey)
             /\ now - summonerCache[KnCacheKey].timestamp >= CACHE_TTL )
           => \/ lastEvent'.outcome = "Riot ID not found"
              \/ summonerCache'[KnCacheKey].timestamp = now
        /\ \A id \in DOMAIN matchDetailCache :
             ( /\ lastEvent'.kind = "command"
               /\ lastEvent'.dataKey # <<>>
               /\ id <= Len(matchDataCache'[lastEvent'.dataKey].matchIds)
               /\ now - matchDetailCache[id].timestamp >= MATCH_DETAIL_TTL )
             => \/ ~Has(matchDataCache'[lastEvent'.dataKey].matchDetails, id)
                \/ matchDetailCache'[id].timestamp = now
        /\ \A key \in DOMAIN canvasCache :
             ( /\ lastEvent'.outcome = "view"
               /\ key = CanvasKey(lastEvent'.dataKey,
                          matchDataCache'[lastEvent'.dataKey]
                              .matchIds[lastEvent'.index + 1])
               /\ now - canvasCache[key].timestamp >= CANVAS_CACHE_TTL )
             => canvasCache'[key].timestamp = now ]_vars

\* the creation time carried by a session key
CreatedAt(key) == CHOOSE t \in 0..MaxTime : key[Len(key)] = ToString(t)

\* C8: a session that was never navigated is expired once its creation time
\* plus the session TTL has elapsed: every press made after that instant is
\* answered "session expired" and leaves the session alone, swept or not.
C8_SessionExpiry ==
    [][ \A key \in DOMAIN matchDataCache, dir \in Directions :
          /\ Pressed(key, dir)
          /\ matchDataCache[key].timestamp = CreatedAt(key)
          /\ now > CreatedAt(key) + MATCH_DATA_TTL
          => /\ lastEvent'.outcome = "Session expired"
             /\ UNCHANGED matchDataCache ]_vars

\* C9: every successful navigation sets the session's timestamp to the
\* current time, and the sweep measures the session's age from that
\* timestamp: it drops the session exactly when more than the TTL has passed
\* since then.
C9_TouchExtend ==
    [][ \A key \in DOMAIN matchDataCache :
          /\ \A dir \in Directions :
               Pressed(key, dir) /\ lastEvent'.outcome # "No more matches"
               => /\ key \in DOMAIN matchDataCache'
                  /\ matchDataCache'[key].timestamp = now
          /\ lastEvent'.kind = "sweep"
             => ( key \notin DOMAIN matchDataCache'
                    <=> now - matchDataCache[key].timestamp > MATCH_DATA_TTL ) ]_vars

\* a session that outlived creation + TTL by a sweep because it was touched
C9_Witness ==
    /\ lastEvent.kind = "sweep"
    /\ \E key \in DOMAIN matchDataCache :
          /\ now - CreatedAt(key) > MATCH_DATA_TTL
          /\ matchDataCache[key].timestamp > CreatedAt(key)
          /\ matchDataCache[key].currentIndex > 0

\* entries of map that are TTL old or older
Overdue(map, ttl) == { k \in DOMAIN map : now - map[k].timestamp >= ttl }

\* C10: right after a run of the sweep no tier holds an entry with
\* now - storedAt >= its TTL.
C10_SweepComplete ==
    lastEvent.kind = "sweep" =>
        /\ Overdue(summonerCache, CACHE_TTL) = {}
        /\ Overdue(matchDataCache, MATCH_DATA_TTL) = {}
        /\ Overdue(matchDetailCache, MATCH_DETAIL_TTL) = {}
        /\ Overdue(canvasCache, CANVAS_CACHE_TTL) = {}
        /\ Overdue(imageCache, IMAGE_CACHE_TTL) = {}

\* C11: a command that stores a session never does so under the key of a
\* session already in the store (two requests of one caller that read the
\* same clock value included); the stored session has age 0 and is live.
C11_UniqueKeys ==
    [][ lastEvent'.kind = "command" /\ lastEvent'.dataKey # <<>>
        => lastEvent'.dataKey \notin DOMAIN matchDataCache ]_vars

\* C12: a custom id of fewer than 3 '_'-separated segments is answered
\* "invalid button data", which is neither the session-expired nor the
\* no-more-matches answer, and changes no session and no cache; an id of 3 or
\* more segments that names no stored session is answered "session expired"
\* and never "invalid button data".
C12_InvalidToken ==
    [][ lastEvent'.kind = "button" =>
          LET id   == lastEvent'.customId
              seps == { i \in 1..Len(id) : id[i] = "_" }
          IN  IF Cardinality(seps) < 2
              THEN /\ lastEvent'.outcome = "Invalid button data"
                   /\ lastEvent'.outcome \notin {"Session expired", "No more matches"}
                   /\ UNCHANGED cacheVars
              ELSE LET last == CHOOSE i \in seps : \A j \in seps : j <= i
                       key  == SubSeq(id, 1, last - 1)
                   IN  /\ lastEvent'.outcome # "Invalid button data"
                       /\ key \notin DOMAIN matchDataCache
                            => lastEvent'.outcome = "Session expired" ]_vars

\* a malformed id was rejected while a session was in the store
C12_Witness ==
    /\ lastEvent.kind = "button"
    /\ lastEvent.outcome = "Invalid button data"
    /\ Len(Split(lastEvent.customId, "_")) = 2
    /\ matchDataCache # EmptyMap

-----------------------------------------------------------------------------
(* Properties of the /tft-climb failures and partner aggregates             *)

\* the replies to a failed identity, summoner or rank-list fetch (lines 100,
\* 112, 126) and to a rejected fetch (line 346)
UpstreamFailureReplies ==
    {"Riot ID not found", "Summoner not found", "Could not fetch ranked data",
     "An error occurred"}

\* a call of the partner lookup of lines 211-219
IsPartnerCall(call) == call.api \in {"summoner", "account"} /\ call.arg # Me

\* the partner ids carried by the points of the timeline
PartnerKeys == { climbData[i].partner : i \in 1..Len(climbData) } \ {"null"}

\* number of timeline points that carry partner id key
PointsWith(key) == Cardinality({ i \in 1..Len(climbData) : climbData[i].partner = key })

\* C13: when the request got as far as the match loop and no match of the
\* list qualifies (wrong mode, player absent, or every fetch skipped), the
\* reply is the no-Double-Up failure, which is none of the replies to an
\* upstream failure, and nothing is drawn; a graph always has a point besides
\* the anchor; a failed identity, summoner or rank-list fetch is answered
\* with an upstream failure reply.
C13_NoQualifyingData ==
    climbPc = "done" =>
        /\ ( /\ currentRank # NoRankEntry
             /\ \A i \in 1..Len(matchList) : ~Qualifies(matchList[i]) )
           => /\ climbReply = "No Double Up matches found"
              /\ climbReply \notin UpstreamFailureReplies \cup {"graph"}
        /\ climbReply = "graph"
           => /\ \E i \in 1..Len(matchList) : Qualifies(matchList[i])
              /\ Len(climbData) >= 2
        /\ ( \E k \in 1..Len(climbFetches) :
                /\ climbFetches[k].api \in {"account", "summoner", "league"}
                /\ climbFetches[k].arg = Me
                /\ ~climbFetches[k].ok )
           => climbReply \in UpstreamFailureReplies

\* every fetch of a non-empty match list was skipped
C13_Witness ==
    /\ climbPc = "done"
    /\ climbReply = "No Double Up matches found"
    /\ Len(matchList) >= 1
    /\ \A i \in 1..Len(matchList) : ~matchList[i].ok

\* C14: when every partner lookup of the request succeeded, the aggregates
\* are exactly the partners carried by the timeline points, one aggregate
\* each, and an aggregate's count is the number of points carrying its id.
C14_PartnerAggregation ==
    ( /\ climbReply = "graph"
      /\ \A k \in 1..Len(climbFetches) :
            IsPartnerCall(climbFetches[k]) => climbFetches[k].ok )
    => /\ { duoPartners[k].key : k \in 1..Len(duoPartners) } = PartnerKeys
       /\ Len(duoPartners) = Cardinality(PartnerKeys)
       /\ \A k \in 1..Len(duoPartners) :
             /\ duoPartners[k].count = PointsWith(duoPartners[k].key)
             /\ Cardinality({ j \in 1..Len(climbFetches) :
                     /\ climbFetches[j].api = "summoner"
                     /\ climbFetches[j].arg = duoPartners[k].key }) = 1

\* one partner resolved once and counted in two games
C14_Witness ==
    /\ climbReply = "graph"
    /\ \A k \in 1..Len(climbFetches) :
          IsPartnerCall(climbFetches[k]) => climbFetches[k].ok
    /\ \E k \in 1..Len(duoPartners) : duoPartners[k].count = 2

\* C15: the identity lookup of one partner id is issued at most once.
C15_LookupOnce ==
    \A key \in {"X", "Y"} :
        Cardinality({ k \in 1..Len(climbFetches) :
                        /\ climbFetches[k].api = "summoner"
                        /\ climbFetches[k].arg = key }) <= 1

\* C16: when a partner's identity lookup fails the request still ends with
\* the graph, and the partner has an aggregate under its id, without a
\* display name, whose count is the number of games played with it.
C16_FailedLookupAggregated ==
    \A k \in 1..Len(climbFetches) :
        ( /\ IsPartnerCall(climbFetches[k])
          /\ ~climbFetches[k].ok
          /\ climbPc = "done" )
        => /\ climbReply = "graph"
           /\ \E j \in 1..Len(duoPartners) :
                 /\ duoPartners[j].key = climbFetches[k].arg
                 /\ duoPartners[j].count = PointsWith(climbFetches[k].arg)

\* C19: a /tft-climb request handled a second time with the same upstream
\* answers gives the same reply and, when a graph is drawn, the same timeline
\* and the same partner aggregates as the first time, whatever the /tft
\* caches hold and whatever was handled in between.
C19_Deterministic ==
    ( /\ firstRun # NoRun
      /\ climbPc = "done"
      /\ climbInputs = firstRun.inputs )
    => /\ climbReply = firstRun.reply
       /\ climbReply = "graph"
            => /\ climbData = firstRun.climbData
               /\ duoPartners = firstRun.duoPartners

\* the second graph, with a counted partner, after a /tft request filled the
\* caches and the clock moved
C19_Witness ==
    /\ firstRun # NoRun
    /\ climbPc = "done"
    /\ climbReply = "graph"
    /\ \E k \in 1..Len(duoPartners) : duoPartners[k].count >= 1
    /\ summonerCache # EmptyMap
    /\ matchDataCache # EmptyMap
    /\ now > 0

-----------------------------------------------------------------------------
(* Properties of the Riot ID check of the three commands                    *)

\* the text before the first '#' and the text between the first '#' and the
\* next one (or the end) are both non-empty
HasNameAndTag(id) ==
    LET hashes == { i \in 1..Len(id) : id[i] = "#" }
    IN  /\ hashes # {}
        /\ LET h == CHOOSE i \in hashes : \A j \in hashes : i <= j
           IN  h > 1 /\ h < Len(id) /\ id[h + 1] # "#"

\* what a command given Riot ID id did: its reply and the upstream calls it
\* issued, in a step that may have changed the caches
FormatChecked(id, reply, fetches) ==
    IF HasNameAndTag(id)
    THEN reply # "Invalid Riot ID format" /\ fetches # <<>>
    ELSE reply = "Invalid Riot ID format" /\ fetches = <<>> /\ UNCHANGED cacheVars

\* C20: /tft, /tft-climb and /tft-stats each answer a Riot ID that does not
\* split on '#' into a non-empty name and a non-empty tag with the invalid
\* format reply, without issuing an upstream call and without changing a
\* cache or a session; a Riot ID that does split gets another reply, after
\* at least one upstream call.
C20_InputFormat ==
    [][ /\ (lastEvent'.kind = "command" /\ handled' # handled)
           => FormatChecked(lastEvent'.riotId, lastEvent'.outcome, lastEvent'.fetches)
        /\ (climbPc = "idle" /\ climbPc' # "idle")
           => FormatChecked(climbInputs'[1].riotId, climbReply', climbFetches')
        /\ statsEvent' # statsEvent
           => FormatChecked(statsEvent'.riotId, statsEvent'.reply, statsEvent'.fetches)
      ]_vars

\* /tft and /tft-stats have both rejected a Riot ID while a session is held
C20_Witness ==
    /\ lastEvent.kind = "command"
    /\ lastEvent.outcome = "Invalid Riot ID format"
    /\ lastEvent.riotId = <<"K", "#">>
    /\ matchDataCache # EmptyMap
    /\ statsEvent.reply = "Invalid Riot ID format"
    /\ statsEvent.riotId = <<"#", "N">>

-----------------------------------------------------------------------------
(* Properties of the /tft failures                                          *)

\* C21: a /tft command whose account, summoner or rank-list fetch failed
\* replies with a failure, stores no session, and leaves every cache as it
\* was before the command.
C21_UpstreamUnavailable ==
    [][ ( /\ lastEvent'.kind = "command"
          /\ handled' # handled
          /\ \E k \in 1..Len(lastEvent'.fetches) :
                /\ lastEvent'.fetches[k].api \in {"account", "summoner", "league"}
                /\ ~lastEvent'.fetches[k].ok )
        => /\ lastEvent'.outcome \in {"Riot ID not found", "Summoner not found",
                                      "An error occurred"}
           /\ lastEvent'.dataKey = <<>>
           /\ UNCHANGED cacheVars ]_vars

\* number of detail fetches for the match at position i in a call log
DetailFetches(fetches, i) ==
    Cardinality({ k \in 1..Len(fetches) :
                    fetches[k].api = "match" /\ fetches[k].arg = i })

\* the matches of a list that /tft-stats can count: fetched and played by
\* the player
StatsCounted(matches) ==
    { i \in 1..Len(matches) :
        /\ matches[i].ok
        /\ \E j \in 1..Len(matches[i].participants) :
              matches[i].participants[j].puuid = Me }

\* C22: a failed detail fetch drops that match only: every match of the
\* list is fetched exactly once, and as long as one match remains the
\* request succeeds on the remaining ones (/tft-climb draws the graph with
\* one point for each remaining Double Up match, /tft-stats sends the embed
\* with one placement for each remaining match).
C22_PerMatchSkip ==
    /\ (climbPc = "done" /\ currentRank # NoRankEntry)
         => /\ \A i \in 1..Len(matchList) : DetailFetches(climbFetches, i) = 1
            /\ (\E i \in 1..Len(matchList) : Qualifies(matchList[i]))
                 => /\ climbReply = "graph"
                    /\ Len(climbData) =
                         1 + Cardinality({ i \in 1..Len(matchList) :
                                             Qualifies(matchList[i]) })
    /\ StatsCounted(statsEvent.matchList) # {}
         => /\ \A i \in 1..Len(statsEvent.matchList) :
                  DetailFetches(statsEvent.fetches, i) = 1
            /\ statsEvent.reply = "embed"
            /\ Len(statsEvent.placements) =
                 Cardinality(StatsCounted(statsEvent.matchList))

\* C23: a navigation issues no upstream call and writes none of the caches of
\* fetched data; it leaves the session's match ids and details as they were,
\* and shows the view of the new cursor exactly when the session holds the
\* detail of that match, a newly rendered frame being that stored detail.
C23_NavigationNoRefetch ==
    [][ (lastEvent'.kind = "button" /\ handled' # handled)
          => /\ lastEvent'.fetches = <<>>
             /\ UNCHANGED <<summonerCache, matchDetailCache>>
             /\ lastEvent'.index >= 0
                  => LET dataKey == lastEvent'.dataKey
                         before == matchDataCache[dataKey]
                         after == matchDataCache'[dataKey]
                         matchId == before.matchIds[lastEvent'.index + 1]
                         key == CanvasKey(dataKey, matchId)
                     IN  /\ after.matchIds = before.matchIds
                         /\ after.matchDetails = before.matchDetails
                         /\ (lastEvent'.outcome = "view")
                              = Has(before.matchDetails, matchId)
                         /\ (canvasCache' # canvasCache)
                              => canvasCache'[key].canvas = before.matchDetails[matchId]
      ]_vars

\* a view shown by a navigation when matchDetailCache no longer has the match
C23_Witness ==
    /\ lastEvent.kind = "button"
    /\ lastEvent.outcome = "view"
    /\ Has(matchDataCache, lastEvent.dataKey)
    /\ LET matchId == matchDataCache[lastEvent.dataKey].matchIds[lastEvent.index + 1]
       IN  ~Fresh(matchDetailCache, matchId, MATCH_DETAIL_TTL, now)

\* the placement the requested player took in a qualifying match
PlacementIn(match) ==
    LET me == CHOOSE i \in 1..Len(match.participants) :
                  match.participants[i].puuid = Me
    IN  match.participants[me].placement

\* the points of the timeline that stand for matches (the anchor has placement 0)
MatchPoints(data) ==
    LET IsMatchPoint(p) == p.placement # 0
    IN  SelectSeq(data, IsMatchPoint)

\* C25: the match points of the final timeline are the qualifying matches in
\* non-decreasing timestamp order, matches with equal timestamps in the order
\* they were fetched, whatever order the upstream returned the list in.
C25_TimelineOrdering ==
    climbReply = "graph" =>
        LET points == MatchPoints(climbData)
            outcomes == ChronologicalOutcomes
        IN  /\ Len(points) = Len(outcomes)
            /\ \A i \in 1..Len(points) :
                  /\ points[i].timestamp = outcomes[i].ts
                  /\ points[i].placement = TeamPlacement(PlacementIn(outcomes[i]))
            /\ \A i, j \in 1..Len(points) :
                  i < j => points[i].timestamp <= points[j].timestamp

\* C26: the LP change of a match point is a function of its team placement,
\* the best team placement has a positive change, and a better (lower) team
\* placement never has a smaller change than a worse one.
C26_PlacementDelta ==
    LET points == MatchPoints(climbData)
    IN  \A i, j \in 1..Len(points) :
          /\ points[i].placement = points[j].placement
               => points[i].lpChange = points[j].lpChange
          /\ points[i].placement = 1 => points[i].lpChange > 0
          /\ points[i].placement < points[j].placement
               => points[i].lpChange >= points[j].lpChange

\* C24: every stored session holds a detail for each id of its match list, so
\* no first render and no navigation finds the detail of its match missing.
C24_SessionComplete ==
    /\ \A dataKey \in DOMAIN matchDataCache :
          LET sessionData == matchDataCache[dataKey]
          IN  \A i \in 1..Len(sessionData.matchIds) :
                 Has(sessionData.matchDetails, sessionData.matchIds[i])
    /\ lastEvent.outcome # "Match data not found"

\* C27: every stored session has a non-empty match list and a cursor that is
\* an index of it: 0 <= currentIndex <= Len(matchIds) - 1.
C27_CursorInRange ==
    \A dataKey \in DOMAIN matchDataCache :
        LET sessionData == matchDataCache[dataKey]
        IN  /\ Len(sessionData.matchIds) >= 1
            /\ 0 <= sessionData.currentIndex
            /\ sessionData.currentIndex <= Len(sessionData.matchIds) - 1

\* a "next" refused at the last match, the cursor still on the last match
C27_Witness ==
    /\ lastEvent.kind = "button"
    /\ lastEvent.outcome = "No more matches"
    /\ Has(matchDataCache, lastEvent.dataKey)
    /\ lastEvent.customId = lastEvent.dataKey \o <<"_", "next">>
    /\ LET sessionData == matchDataCache[lastEvent.dataKey]
       IN  /\ sessionData.currentIndex = Len(sessionData.matchIds) - 1
           /\ sessionData.currentIndex > 0

\* the cursor after the navigation actions of log, applied one after another
\* to a session of `length` matches whose cursor starts at 0
RECURSIVE CursorAfter(_, _)
CursorAfter(log, length) ==
    IF log = <<>> THEN 0
    ELSE LET before == CursorAfter(SubSeq(log, 1, Len(log) - 1), length)
             newIndex == NewIndex(before, log[Len(log)])
         IN  IF NoMoreMatches(newIndex, length) THEN before ELSE newIndex

InFlight(p) == press[p].pc \in {"deferUpdate", "canvas"}

\* C28: with several navigation handlers in flight on one session, the
\* session's cursor is always the cursor that the handlers started so far give
\* when applied one after another in the order they started: no handler's
\* update is lost or applied to a stale cursor.
C28_NoLostUpdate ==
    \A dataKey \in DOMAIN matchDataCache :
        matchDataCache[dataKey].currentIndex
            = CursorAfter(pressLog, Len(matchDataCache[dataKey].matchIds))

\* two handlers in flight at once, both having moved the cursor forward
C28_Witness ==
    /\ \E p, q \in Presses :
          /\ p # q
          /\ InFlight(p) /\ InFlight(q)
          /\ press[p].newIndex = 1 /\ press[q].newIndex = 2
    /\ \E dataKey \in DOMAIN matchDataCache : matchDataCache[dataKey].currentIndex = 2

\* C29: a session enters the store only when none of its request's per-match
\* fetches is pending, with the details the request collected, and the ids and
\* details of a stored session never change afterwards.
C29_NoPartialSession ==
    [][ \A dataKey \in DOMAIN matchDataCache' :
          IF Has(matchDataCache, dataKey)
          THEN /\ matchDataCache'[dataKey].matchDetails
                    = matchDataCache[dataKey].matchDetails
               /\ matchDataCache'[dataKey].matchIds = matchDataCache[dataKey].matchIds
          ELSE /\ request.pending = {}
               /\ matchDataCache'[dataKey].matchDetails = request.allMatchDetails
      ]_vars

\* a session stored with some fetches skipped, after a handler that ran during
\* the fetches found no session, and since paged by another handler
C29_Witness ==
    /\ \E dataKey \in DOMAIN matchDataCache :
          LET sessionData == matchDataCache[dataKey]
          IN  /\ DOMAIN sessionData.matchDetails # {}
              /\ Cardinality(DOMAIN sessionData.matchDetails) < Len(sessionData.matchIds)
              /\ sessionData.currentIndex > 0
    /\ \E p \in Presses : press[p] = PressDone("Session expired")
    /\ \E p \in Presses : press[p] = PressDone("view")

\* base + offset of every tier/division of RANK_TIERS
DivisionStarts ==
    UNION { { RANK_TIERS[i].base + RANK_TIERS[i].divisions[j].divLP :
                j \in 1..Len(RANK_TIERS[i].divisions) } :
            i \in 1..Len(RANK_TIERS) }

\* C30: for a total >= 0, getTierFromTotalLP returns the tier/division whose
\* base + offset is the greatest one not above the total; its points are at
\* most 99 below the apex tiers and exactly total - (base + offset), however
\* large, in an apex tier.
C30_ResidualPoints ==
    (rankOut # NoRank /\ rankTotal >= 0) =>
        LET start == calculateTotalLP(rankOut.tier, rankOut.rank, 0)
        IN  /\ start <= rankTotal
            /\ \A other \in DivisionStarts : other <= rankTotal => other <= start
            /\ rankOut.tier \notin ApexTiers => rankOut.lp <= MaxLpInDivision
            /\ rankOut.tier \in ApexTiers => rankOut.lp = rankTotal - start

\* C31: every point of the final timeline, the anchor included, carries the
\* tier, division and points that getTierFromTotalLP gives for its totalLP.
C31_RankTotalAgreement ==
    climbReply = "graph" =>
        \A i \in 1..Len(climbData) :
            LET point == climbData[i]
            IN  [tier |-> point.tier, rank |-> point.rank, lp |-> point.lp]
                    = getTierFromTotalLP(point.totalLP)

\* the other participant of the player's team: the one whose team unit
\* (ceil(placement / 2)) equals the player's
TeamMate(match) ==
    LET mine == TeamPlacement(PlacementIn(match))
        mates == { i \in 1..Len(match.participants) :
                     /\ match.participants[i].puuid # Me
                     /\ TeamPlacement(match.participants[i].placement) = mine }
    IN  IF mates = {} THEN "null"
        ELSE match.participants[CHOOSE i \in mates : TRUE].puuid

\* C32: the partner recorded on the point of a qualifying match with eight
\* participants at raw placements 1..8 is the one other participant whose
\* team unit ceil(placement / 2) equals the requested player's.
C32_PartnerIdentified ==
    [][ (climbPc = "loop" /\ Len(climbData') = Len(climbData) + 1)
          => climbData'[1].partner = TeamMate(matchList[matchIdx]) ]_vars

\* the keys of map that the step removes are removed by the sweep and are at
\* least ttl old
RemovedOnlyBySweep(map, mapAfter, ttl) ==
    \A k \in DOMAIN map \ DOMAIN mapAfter :
        /\ lastEvent'.kind = "sweep"
        /\ ~(now - map[k].timestamp < ttl)

\* C33: an entry leaves a cache or the session store only in a step of the
\* periodic sweep, and never while now - timestamp < TTL; commands, failed or
\* not, and button presses of every outcome remove nothing.
C33_RemovalOnlyBySweep ==
    [][ /\ RemovedOnlyBySweep(matchDataCache, matchDataCache', MATCH_DATA_TTL)
        /\ RemovedOnlyBySweep(matchDetailCache, matchDetailCache', MATCH_DETAIL_TTL)
        /\ RemovedOnlyBySweep(canvasCache, canvasCache', CANVAS_CACHE_TTL)
        /\ RemovedOnlyBySweep(imageCache, imageCache', IMAGE_CACHE_TTL)
        /\ DOMAIN summonerCache \subseteq DOMAIN summonerCache'
      ]_vars

\* the sweep has just left the session store empty while images loaded for a
\* stored session are still cached
C33_Witness ==
    /\ lastEvent.kind = "sweep"
    /\ now > MATCH_DATA_TTL
    /\ matchDataCache = EmptyMap
    /\ imageCache # EmptyMap

\* a cutoff timestamp that lies between the two games of a match list
Cutoff == 2

\* the matches of the request that may contribute: target mode, the player
\* took part, not older than the cutoff
Contributing(cutoff) ==
    { i \in 1..Len(matchList) : Qualifies(matchList[i]) /\ matchList[i].ts >= cutoff }

\* C34: the points with a placement come from the matches of the target mode
\* in which the player took part and whose timestamp is not before the cutoff:
\* there is one point per such match and no point older than the cutoff.
C34_TimelineFiltering ==
    climbReply = "graph" =>
        LET points == MatchPoints(climbData)
        IN  /\ Len(points) = Cardinality(Contributing(Cutoff))
            /\ \A i \in 1..Len(points) : points[i].timestamp >= Cutoff

\* lines 987 and 992: the custom id of a button of the view of a session
Token(key, dir) == key \o <<"_", dir>>

\* C35: a press of the token key_dir of a stored session, whose key
\* tft_<caller>_<time> itself holds the separator, is routed to /tft's
\* handleButton, which decodes exactly that key and that direction: it finds
\* the session and moves towards cursor + 1 for next, cursor - 1 for prev.
C35_TokenRoundTrip ==
    [][ \A key \in DOMAIN matchDataCache, dir \in Directions :
          Pressed(key, dir) =>
            /\ Len(Split(key, "_")) = 3
            /\ ButtonCommand(Token(key, dir)) \in CommandsWithButtons
            /\ lastEvent'.dataKey = key
            /\ lastEvent'.outcome \notin {"Invalid button data", "Session expired"}
            /\ lastEvent'.outcome # "No more matches"
                 => lastEvent'.index = matchDataCache[key].currentIndex + Step(dir)
      ]_vars

\* a view reached by the "next" token of a session created after time 0
C35_Witness ==
    /\ lastEvent.kind = "button"
    /\ lastEvent.outcome = "view"
    /\ lastEvent.dataKey \in DOMAIN matchDataCache
    /\ \E caller \in Callers, t \in 1..MaxTime : lastEvent.dataKey = DataKey(caller, t)
    /\ lastEvent.customId = Token(lastEvent.dataKey, "next")

-----------------------------------------------------------------------------
(* /tft: requests for two players of the same matches                      *)

\* most requests of a run, their longest match list and the last instant
PlayersEvents == 2
PlayersMatches == 2
PlayersTime == 4

PlayerCallers == {"u1", "u2"}       \* interaction.user.id
PlayerRiotIds == { <<"K", "#", "N">>, <<"X", "#", "N">> }

\* requests for either player, each under a session key of its own, over
\* any answers to their match detail fetches
PlayersNext ==
    \/ /\ Handle(PlayersEvents)
       /\ \E caller \in PlayerCallers, riotId \in PlayerRiotIds,
             matchCount \in 1..PlayersMatches :
             /\ DataKey(caller, now) \notin DOMAIN matchDataCache
             /\ \E failing \in FailingSets(matchCount) :
                   ExecuteRequest(caller, riotId, matchCount, "ok", failing, TRUE)
    \/ cleanupOldCacheEntries
    \/ Tick(PlayersTime)

SpecPlayers == Init /\ [][PlayersNext]_vars

\* C36: the detail a request places in its session for a match carries the
\* participant record of the player the request was made for, whatever
\* matchDetailCache held when the request ran.
C36_PerPlayerDetail ==
    \A key \in DOMAIN matchDataCache :
        LET sessionData == matchDataCache[key]
        IN  \A matchId \in DOMAIN sessionData.matchDetails :
                sessionData.matchDetails[matchId].playerData = sessionData.summoner

-----------------------------------------------------------------------------
(* /tft: presses of the buttons of the view on display                     *)

\* lines 989 and 994: setDisabled on the buttons of the view of match `index`
Disabled(dir, index, length) ==
    IF dir = "prev" THEN index = 0 ELSE index = length - 1

\* one /tft request, then presses of the enabled buttons of the view sent
\* last, the handlers interleaved at their awaits
PagingNext ==
    \/ \E caller \in Callers : RequestStart(caller, <<"K", "#", "N">>, AsyncMatches)
    \/ \E matchId \in 1..AsyncMatches, ok \in BOOLEAN : RequestFetched(matchId, ok)
    \/ RequestStore
    \/ RequestRendered
    \/ /\ delivered # NoView
       /\ \E dir \in Directions :
             LET customId == Token(delivered.dataKey, dir)
             IN  /\ ~Disabled(dir, delivered.index, Len(request.matchIds))
                 /\ ButtonCommand(customId) \in CommandsWithButtons
                 /\ PressStart(customId)
    \/ \E p \in Presses : PressDeferred(p)
    \/ \E p \in Presses : PressRendered(p)

SpecPaging == Init /\ [][PagingNext]_vars

\* every handler started so far has replied, and at least two sent a view
Quiescent ==
    /\ request.pc = "done"
    /\ \A p \in Presses : press[p].pc = "done"
    /\ \E p, q \in Presses :
          p # q /\ press[p] = PressDone("view") /\ press[q] = PressDone("view")

\* C37: once all navigation handlers of a session that ran concurrently have
\* completed, in whatever order their renders finished, the view sent last is
\* the view of the match under the session's cursor.
C37_ViewCursorAgreement ==
    Quiescent =>
        /\ Has(matchDataCache, delivered.dataKey)
        /\ delivered.index = matchDataCache[delivered.dataKey].currentIndex

-----------------------------------------------------------------------------
(* /tft: sessions left alone while the clock and the sweep timer run on     *)

\* most commands and presses of a run, the match list of its requests, and
\* the last instant at which a session is created or paged
LiveEvents == 3
LiveMatches == 2
LiveActivity == 1

\* the sweep that removes a session last touched at LiveActivity has run
LiveTime == LiveActivity + MATCH_DATA_TTL + 1

\* line 813: the keys of the sessions such a run can create
LiveKeys == { DataKey(caller, t) : caller \in Callers, t \in 0..LiveActivity }

\* requests and successful navigation up to LiveActivity; presses that move
\* no cursor at any time
LiveNext ==
    \/ /\ Handle(LiveEvents)
       /\ now <= LiveActivity
       /\ \E caller \in Callers :
             ExecuteTft(caller, <<"K", "#", "N">>, LiveMatches, "ok", {}, TRUE)
    \/ /\ Handle(LiveEvents)
       /\ \E key \in LiveKeys, dir \in Directions :
             /\ ButtonCommand(Token(key, dir)) \in CommandsWithButtons
             /\ HandleButton(Token(key, dir), TRUE)
             /\ now <= LiveActivity \/ matchDataCache' = matchDataCache
    \/ cleanupOldCacheEntries
    \/ Tick(LiveTime)

\* line 595: the interval timer fires every period for as long as the process
\* runs, and the clock it reads moves on
SpecLive ==
    /\ Init
    /\ [][LiveNext]_vars
    /\ WF_vars(Tick(LiveTime))
    /\ WF_vars(cleanupOldCacheEntries)

\* C38: with the sweep timer firing and time advancing, a session that is no
\* longer paged is eventually removed from matchDataCache and stays removed,
\* and every press of a button of a key that matchDataCache does not hold is
\* answered "Session expired".
C38_SessionReclaimed ==
    /\ \A key \in LiveKeys :
          [](Has(matchDataCache, key) => <>[](~Has(matchDataCache, key)))
    /\ [][ \A key \in LiveKeys, dir \in Directions :
             (~Has(matchDataCache, key) /\ Pressed(key, dir))
                 => /\ lastEvent'.outcome = "Session expired"
                    /\ ~Has(matchDataCache', key) ]_vars

\* a press answered "Session expired" on the key of a session that was created
\* at the time summonerCache records and has been swept since
C38_Witness ==
    /\ lastEvent.kind = "button"
    /\ lastEvent.outcome = "Session expired"
    /\ ~Has(matchDataCache, lastEvent.dataKey)
    /\ \E cacheKey \in DOMAIN summonerCache, caller \in Callers :
          /\ lastEvent.dataKey = DataKey(caller, summonerCache[cacheKey].timestamp)
          /\ now > summonerCache[cacheKey].timestamp + MATCH_DATA_TTL
    /\ now = LiveTime

====
